---- MODULE Spec2Model ----
(***************************************************************************)
(* Model of the alumni / company-partner reconciliation pipeline           *)
(* (src/etl/*.py, src/utils/*.py).                                         *)
(*                                                                         *)
(* Text values (names, tax ids, dates, company ids) are sequences of       *)
(* one-character strings, so that slicing, stripping and parsing are       *)
(* computed as the code computes them.  A null cell is the value NULL.     *)
(* Tables (data frames, parquet files) are sequences of records; a file    *)
(* is a record whose field exists tells whether it is on disk.             *)
(***************************************************************************)
EXTENDS Integers, Sequences, FiniteSets, TLC

\* ------------------------------------------------------------------------
\* Text primitives
\* ------------------------------------------------------------------------

NULL == <<"NULL">>

EMPTY == <<>>

DigitChars == <<"0", "1", "2", "3", "4", "5", "6", "7", "8", "9">>

LowerChars == <<"a", "b", "c", "d", "e", "f", "g", "h", "i", "j", "k", "l", "m",
                "n", "o", "p", "q", "r", "s", "t", "u", "v", "w", "x", "y", "z">>

UpperChars == <<"A", "B", "C", "D", "E", "F", "G", "H", "I", "J", "K", "L", "M",
                "N", "O", "P", "Q", "R", "S", "T", "U", "V", "W", "X", "Y", "Z">>

SpaceChars == {" ", "\t"}

Range(s) == {s[i] : i \in DOMAIN s}

IsDigit(c) == c \in Range(DigitChars)

DigitVal(c) == (CHOOSE i \in DOMAIN DigitChars : DigitChars[i] = c) - 1

\* int(text) for a text of digits
RECURSIVE ToInt(_)
ToInt(s) ==
  IF s = EMPTY THEN 0
  ELSE 10 * ToInt(SubSeq(s, 1, Len(s) - 1)) + DigitVal(s[Len(s)])

SelectDigits(s) == SelectSeq(s, IsDigit)

\* str.upper() on one character
UpperChar(c) ==
  IF c \in Range(LowerChars)
  THEN UpperChars[CHOOSE i \in DOMAIN LowerChars : LowerChars[i] = c]
  ELSE c

\* the ideograph U+4E2D, which unidecode spells "Zhong " with a blank
ZHONG == "U+4E2D"

\* unidecode() on one character: the transliteration of the accented
\* characters that occur in the modelled names; ASCII is left as it is
UnidecodeChar(c) ==
  CASE c = "ã" -> <<"a">>
    [] c = "é" -> <<"e">>
    [] c = "ç" -> <<"c">>
    [] c = "ß" -> <<"s", "s">>
    [] c = ZHONG -> <<"Z", "h", "o", "n", "g", " ">>
    [] OTHER -> <<c>>

RECURSIVE Unidecode(_)
Unidecode(s) ==
  IF s = EMPTY THEN EMPTY ELSE UnidecodeChar(Head(s)) \o Unidecode(Tail(s))

RECURSIVE LStrip(_)
LStrip(s) ==
  IF s # EMPTY /\ Head(s) \in SpaceChars THEN LStrip(Tail(s)) ELSE s

RECURSIVE RStrip(_)
RStrip(s) ==
  IF s # EMPTY /\ s[Len(s)] \in SpaceChars
  THEN RStrip(SubSeq(s, 1, Len(s) - 1))
  ELSE s

Strip(s) == RStrip(LStrip(s))

\* re.sub(r"\s+", " ", s)
RECURSIVE CollapseSpaces(_)
CollapseSpaces(s) ==
  IF s = EMPTY THEN EMPTY
  ELSE IF Head(s) \in SpaceChars
       THEN <<" ">> \o CollapseSpaces(LStrip(s))
       ELSE <<Head(s)>> \o CollapseSpaces(Tail(s))

UpperText(s) == [i \in DOMAIN s |-> UpperChar(s[i])]

\* line 19 with strip() applied before unidecode()
normalize_name_StripFirst(name) ==
  IF name = NULL THEN EMPTY
  ELSE UpperText(CollapseSpaces(Unidecode(Strip(name))))

\* utils/clean.py normalize_name
normalize_name(name) ==
  IF name = NULL THEN EMPTY
  ELSE UpperText(CollapseSpaces(Strip(Unidecode(name))))

\* polars map_elements: a null cell is skipped and stays null
MapElements(F(_), v) == IF v = NULL THEN NULL ELSE F(v)

\* ------------------------------------------------------------------------
\* Tax id, identity hash, tax-id fragment
\* ------------------------------------------------------------------------

Max(a, b) == IF a >= b THEN a ELSE b

Abs(n) == IF n < 0 THEN -n ELSE n

\* sum of int(doc[k]) * (n + 1 - k) for k = 1..n - 1   (weights n .. 2)
RECURSIVE WeightedSum(_, _, _)
WeightedSum(doc, n, k) ==
  IF k >= n THEN 0
  ELSE DigitVal(doc[k]) * (n + 1 - k) + WeightedSum(doc, n, k + 1)

\* validate_docbr: check digit computed over the first n - 1 digits
CheckDigit(doc, n) ==
  LET r == (WeightedSum(doc, n, 1) * 10) % 11
  IN  IF r = 10 THEN 0 ELSE r

\* validate_docbr CPF().validate on a text of digits
CpfValidate(doc) ==
  /\ Len(doc) = 11
  /\ Cardinality(Range(doc)) > 1
  /\ CheckDigit(doc, 10) = DigitVal(doc[10])
  /\ CheckDigit(doc, 11) = DigitVal(doc[11])

\* etl/transform.py _clean_cpf
_clean_cpf(s) ==
  IF s = NULL THEN EMPTY
  ELSE LET d == SelectDigits(s)
       IN  IF Len(d) = 11 /\ CpfValidate(d) THEN d ELSE EMPTY

\* the secret of the .env file (utils/settings.py CPF_SALT)
CPF_SALT == <<"s", "1">>

\* the block size of SHA-256 in bytes (hmac.new, hashlib.sha256)
HMAC_BLOCK_SIZE == 64

\* the zero byte
NUL == "\\0"

RECURSIVE StripNuls(_)
StripNuls(key) ==
  IF key # EMPTY /\ key[Len(key)] = NUL THEN StripNuls(SubSeq(key, 1, Len(key) - 1)) ELSE key

\* hmac.new: a key longer than the block is replaced by its digest, a
\* shorter one is padded with zero bytes to the block size (two keys with
\* the same padded form are one key)
HmacKey(key) ==
  IF Len(key) > HMAC_BLOCK_SIZE THEN <<"sha256">> \o key ELSE StripNuls(key)

\* line 26 with the salt left out of the token
hash_identifier_Unsalted(value, salt) ==
  IF value = NULL THEN EMPTY
  ELSE IF Strip(value) = EMPTY THEN EMPTY
       ELSE <<"#">> \o <<":">> \o Strip(value)

\* utils/security.py hash_identifier: HMAC-SHA256 is modelled as a
\* collision-free keyed token, the pair of key and value behind a tag
hash_identifier(value, salt) ==
  IF value = NULL THEN EMPTY
  ELSE IF Strip(value) = EMPTY THEN EMPTY
       ELSE <<"#">> \o HmacKey(salt) \o <<":">> \o Strip(value)

\* etl/enrich_cnpj.py _middle_cpf_fragment
_middle_cpf_fragment(value) ==
  IF value = NULL \/ value = EMPTY THEN EMPTY
  ELSE LET digits == SelectDigits(value)
       IN  IF Len(digits) < 11 THEN EMPTY ELSE SubSeq(digits, 4, 9)

\* lines 68-69 with the slice one place to the left
_cpf_fragment_from_digits_Shifted(d) ==
  IF d = NULL \/ d = EMPTY THEN EMPTY
  ELSE IF Len(d) >= 11 THEN SubSeq(d, 2, 7)
  ELSE IF Len(d) >= 6 THEN SubSeq(d, Len(d) - 5, Len(d))
  ELSE EMPTY

\* lines 70-72 without the length test: whatever digits[-6:] holds
_cpf_fragment_from_digits_NoMinimum(d) ==
  IF d = NULL \/ d = EMPTY THEN EMPTY
  ELSE IF Len(d) >= 11 THEN SubSeq(d, 4, 9)
  ELSE SubSeq(d, Max(1, Len(d) - 5), Len(d))

\* cnpj/prepare_socios.py _cpf_fragment_from_digits
_cpf_fragment_from_digits(d) ==
  IF d = NULL \/ d = EMPTY THEN EMPTY
  ELSE IF Len(d) >= 11 THEN SubSeq(d, 4, 9)
  ELSE IF Len(d) >= 6 THEN SubSeq(d, Len(d) - 5, Len(d))
  ELSE EMPTY

\* cnpj/prepare_socios.py _digits_only
_digits_only(s) == IF s = NULL \/ s = EMPTY THEN EMPTY ELSE SelectDigits(s)

\* cnpj/prepare_socios.py _normalize_name
_normalize_name(s) ==
  IF s = NULL \/ s = EMPTY THEN EMPTY
  ELSE CollapseSpaces(Strip(UpperText(Unidecode(s))))

\* build_socios_tables 253-264: the columns derived from a registry row
PartnerColumns(r) ==
  [cnpj_basico |-> r.cnpj_basico,
   identificador |-> r.identificador_socio,
   doc_digits |-> MapElements(_digits_only, r.cpf_cnpj_socio),
   nome_normalizado |-> MapElements(_normalize_name, r.nome_socio),
   hash_documento_socio |->
     MapElements(LAMBDA v : IF v = EMPTY THEN EMPTY ELSE hash_identifier(v, CPF_SALT),
                 MapElements(_digits_only, r.cpf_cnpj_socio))]

\* build_socios_tables 266-270: natural persons with six digits or more
IsNaturalPerson(c) ==
  /\ c.identificador = <<"2">>
  /\ c.doc_digits # NULL
  /\ Len(c.doc_digits) >= 6

\* build_socios_tables 272-289: socios_por_cpf, the partner-by-fragment
\* table; it has the four columns selected at lines 279-284
build_socios_tables(rows) ==
  [exists |-> TRUE, has_date |-> FALSE,
   rows |-> { rec \in { [cpf_fragment |-> _cpf_fragment_from_digits(c.doc_digits),
                         nome |-> c.nome_normalizado,
                         cnpj_basico |-> c.cnpj_basico,
                         hash_documento_socio |-> c.hash_documento_socio]
                        : c \in {x \in {PartnerColumns(r) : r \in rows} : IsNaturalPerson(x)} }
              : rec.cpf_fragment # EMPTY }]

\* ------------------------------------------------------------------------
\* Dates
\* ------------------------------------------------------------------------

\* a date cell that is null
NULLDATE == -1

IsLeap(y) == (y % 4 = 0 /\ y % 100 # 0) \/ y % 400 = 0

DaysInMonth(y, m) ==
  IF m = 2 THEN (IF IsLeap(y) THEN 29 ELSE 28)
  ELSE IF m \in {4, 6, 9, 11} THEN 30 ELSE 31

RECURSIVE DaysBeforeMonth(_, _)
DaysBeforeMonth(y, m) ==
  IF m <= 1 THEN 0 ELSE DaysInMonth(y, m - 1) + DaysBeforeMonth(y, m - 1)

\* the day number of a calendar date (proleptic Gregorian ordinal), or
\* NULLDATE when year, month, day are not a date
DateOrdinal(y, m, d) ==
  IF y >= 1 /\ m \in 1..12 /\ d >= 1 /\ d <= DaysInMonth(y, m)
  THEN 365 * (y - 1) + ((y - 1) \div 4) - ((y - 1) \div 100) + ((y - 1) \div 400)
       + DaysBeforeMonth(y, m) + d
  ELSE NULLDATE

AllDigits(s) == \A i \in DOMAIN s : IsDigit(s[i])

\* str.strptime(pl.Date, format="%Y-%m-%d", strict=False)
StrptimeIso(s) ==
  IF /\ s # NULL
     /\ Len(s) = 10
     /\ s[5] = "-" /\ s[8] = "-"
     /\ AllDigits(SubSeq(s, 1, 4)) /\ AllDigits(SubSeq(s, 6, 7)) /\ AllDigits(SubSeq(s, 9, 10))
  THEN DateOrdinal(ToInt(SubSeq(s, 1, 4)), ToInt(SubSeq(s, 6, 7)), ToInt(SubSeq(s, 9, 10)))
  ELSE NULLDATE

\* str.strptime(pl.Date, format="%Y%m%d", strict=False)
StrptimeCompact(s) ==
  IF s # NULL /\ Len(s) = 8 /\ AllDigits(s)
  THEN DateOrdinal(ToInt(SubSeq(s, 1, 4)), ToInt(SubSeq(s, 5, 6)), ToInt(SubSeq(s, 7, 8)))
  ELSE NULLDATE

\* _parse_date without the compact fallback
_parse_date_IsoOnly(s) == StrptimeIso(s)

\* _parse_date: parsed_iso.fill_null(parsed_compact)
_parse_date(s) ==
  IF StrptimeIso(s) # NULLDATE THEN StrptimeIso(s) ELSE StrptimeCompact(s)

\* ------------------------------------------------------------------------
\* Name similarity (rapidfuzz fuzz.token_set_ratio)
\* ------------------------------------------------------------------------

AsciiOrder == <<" ">> \o DigitChars \o UpperChars \o LowerChars

Ord(c) ==
  IF c \in Range(AsciiOrder)
  THEN CHOOSE i \in DOMAIN AsciiOrder : AsciiOrder[i] = c
  ELSE 0

\* lexicographic order of two texts
RECURSIVE TextLess(_, _)
TextLess(a, b) ==
  IF b = EMPTY THEN FALSE
  ELSE IF a = EMPTY THEN TRUE
  ELSE IF Ord(Head(a)) # Ord(Head(b)) THEN Ord(Head(a)) < Ord(Head(b))
  ELSE TextLess(Tail(a), Tail(b))

\* str.split(): the whitespace-separated tokens, as a set
RECURSIVE SplitFrom(_, _)
SplitFrom(s, cur) ==
  IF s = EMPTY THEN (IF cur = EMPTY THEN {} ELSE {cur})
  ELSE IF Head(s) \in SpaceChars
       THEN (IF cur = EMPTY THEN {} ELSE {cur}) \cup SplitFrom(Tail(s), EMPTY)
       ELSE SplitFrom(Tail(s), Append(cur, Head(s)))

TokenSet(s) == SplitFrom(s, EMPTY)

\* " ".join(sorted(tokens))
RECURSIVE SortedJoin(_)
SortedJoin(tokens) ==
  IF tokens = {} THEN EMPTY
  ELSE LET first == CHOOSE t \in tokens : \A u \in tokens \ {t} : TextLess(t, u)
           rest == SortedJoin(tokens \ {first})
       IN  IF rest = EMPTY THEN first ELSE first \o <<" ">> \o rest

\* one row of the longest-common-subsequence table: prev is the row of the
\* previous character of a, acc the part of this row already computed
RECURSIVE LcsRow(_, _, _, _)
LcsRow(prev, ch, b, acc) ==
  IF Len(acc) = Len(b) THEN acc
  ELSE LET j == Len(acc) + 1
           diag == IF j = 1 THEN 0 ELSE prev[j - 1]
           left == IF j = 1 THEN 0 ELSE acc[j - 1]
           cell == IF ch = b[j] THEN diag + 1 ELSE Max(prev[j], left)
       IN  LcsRow(prev, ch, b, Append(acc, cell))

RECURSIVE LcsRows(_, _, _)
LcsRows(a, b, prev) ==
  IF a = EMPTY THEN prev
  ELSE LcsRows(Tail(a), b, LcsRow(prev, Head(a), b, EMPTY))

LcsLen(a, b) ==
  IF a = EMPTY \/ b = EMPTY THEN 0
  ELSE LcsRows(a, b, [j \in 1..Len(b) |-> 0])[Len(b)]

\* insertions plus deletions that turn a into b
IndelDistance(a, b) == Len(a) + Len(b) - 2 * LcsLen(a, b)

\* 100 - 100 * dist / lensum, rounded down to an integer (the comparison
\* with an integer threshold is the same as on the exact value)
NormSimilarity(dist, lensum) ==
  IF lensum = 0 THEN 100 ELSE (100 * (lensum - dist)) \div lensum

\* token_set_ratio on the three joined parts: the sorted intersection and
\* the two sorted differences of the token sets
TokenSetRatioOfParts(sect_len, sep, diff_ab, diff_ba) ==
  IF sect_len # 0 /\ (diff_ab = EMPTY \/ diff_ba = EMPTY) THEN 100
  ELSE Max(NormSimilarity(IndelDistance(diff_ab, diff_ba),
                          2 * (sect_len + sep) + Len(diff_ab) + Len(diff_ba)),
           IF sect_len = 0 THEN 0
           ELSE Max(NormSimilarity(sep + Len(diff_ab), 2 * sect_len + sep + Len(diff_ab)),
                    NormSimilarity(sep + Len(diff_ba), 2 * sect_len + sep + Len(diff_ba))))

\* the length of the joined intersection and of the separator after it
TokenSetRatioOfSect(sect_len, diff_ab, diff_ba) ==
  TokenSetRatioOfParts(sect_len, IF sect_len # 0 THEN 1 ELSE 0, diff_ab, diff_ba)

TokenSetRatioOfSets(tokens_a, tokens_b) ==
  IF tokens_a = {} \/ tokens_b = {} THEN 0
  ELSE TokenSetRatioOfSect(Len(SortedJoin(tokens_a \cap tokens_b)),
                           SortedJoin(tokens_a \ tokens_b),
                           SortedJoin(tokens_b \ tokens_a))

\* fuzz.token_set_ratio(s1, s2)
token_set_ratio(s1, s2) == TokenSetRatioOfSets(TokenSet(s1), TokenSet(s2))

\* the name-similarity threshold (default of _has_similar_name)
NAME_THRESHOLD == 90

\* etl/enrich_cnpj.py _has_similar_name, called with one candidate
_has_similar_name(nome, candidato) ==
  IF nome = EMPTY THEN FALSE
  ELSE token_set_ratio(nome, candidato) >= NAME_THRESHOLD

\* ------------------------------------------------------------------------
\* Sequence helpers
\* ------------------------------------------------------------------------

\* the concatenation of f[1], ..., f[n]
RECURSIVE Flatten(_)
Flatten(f) ==
  IF f = EMPTY THEN EMPTY ELSE Head(f) \o Flatten(Tail(f))

\* the enumerations of a finite set without repetition
Orderings(S) ==
  {o \in [1..Cardinality(S) -> S] : \A i, j \in DOMAIN o : o[i] = o[j] => i = j}

\* the least date of a set of dates, nulls ignored (list.min)
MinDate(S) ==
  IF S \ {NULLDATE} = {} THEN NULLDATE
  ELSE CHOOSE d \in S \ {NULLDATE} : \A e \in S \ {NULLDATE} : d <= e

\* a set of dates as an ascending list
RECURSIVE SortDates(_)
SortDates(S) ==
  IF S = {} THEN EMPTY ELSE <<MinDate(S)>> \o SortDates(S \ {MinDate(S)})

\* a set of texts as an ascending list (sorted(...))
RECURSIVE SortTexts(_)
SortTexts(S) ==
  IF S = {} THEN EMPTY
  ELSE LET first == CHOOSE t \in S : \A u \in S \ {t} : TextLess(t, u)
       IN  <<first>> \o SortTexts(S \ {first})

\* a text cell that is neither null nor ""
NonEmpty(t) == t # NULL /\ t # EMPTY

\* ------------------------------------------------------------------------
\* etl/enrich_cnpj.py
\* ------------------------------------------------------------------------

FOUNDER_WINDOW_DAYS == 31

\* line 44 keeping every record
ValidSocios_NoFilter(file) == file.rows

\* line 44 without its second conjunct: only null fragments are dropped
ValidSocios_NotNullOnly(file) == {x \in file.rows : x.cpf_fragment # NULL}

\* _load_socios_base, line 44: the records whose fragment is neither null
\* nor ""
ValidSocios(file) == {x \in file.rows : NonEmpty(x.cpf_fragment)}

\* _load_socios_base, lines 43-59: the records with a fragment, names
\* normalised, the association date taken from data_entrada_sociedade when
\* the file has that column, duplicates removed
SociosRecords(file) ==
  { [cpf_fragment |-> r.cpf_fragment,
     nome_norm |-> MapElements(normalize_name, r.nome),
     cnpj_basico |-> r.cnpj_basico,
     data_associacao |-> IF file.has_date THEN r.data_entrada_sociedade ELSE NULL]
    : r \in ValidSocios(file) }

\* _load_socios_base returns None: file missing or no record with a fragment
SociosBaseIsNone(file) ==
  \/ ~file.exists
  \/ ValidSocios(file) = {}

\* lines 60-68 keeping one pair per company in each group
SocioPairs_OnePerCompany(order, fragment) ==
  LET group == SelectSeq(order, LAMBDA r : r.cpf_fragment = fragment)
      kept == SelectSeq([i \in DOMAIN group |-> [at |-> i, r |-> group[i]]],
                        LAMBDA x : \A j \in 1..(x.at - 1) :
                                      group[j].cnpj_basico # x.r.cnpj_basico)
  IN  [i \in DOMAIN kept |->
         [nome_norm |-> kept[i].r.nome_norm,
          cnpj_basico |-> kept[i].r.cnpj_basico,
          data_associacao |-> kept[i].r.data_associacao]]

\* the socio_pairs of one fragment group; order is the order in which the
\* unordered unique()/group_by() happened to emit the records
SocioPairs(order, fragment) ==
  LET group == SelectSeq(order, LAMBDA r : r.cpf_fragment = fragment)
  IN  [i \in DOMAIN group |->
         [nome_norm |-> group[i].nome_norm,
          cnpj_basico |-> group[i].cnpj_basico,
          data_associacao |-> group[i].data_associacao]]

\* the records of order that are the first of their fragment
FirstOfFragment(order) ==
  SelectSeq([i \in DOMAIN order |-> [at |-> i, cpf_fragment |-> order[i].cpf_fragment]],
            LAMBDA x : \A j \in 1..(x.at - 1) : order[j].cpf_fragment # x.cpf_fragment)

\* _load_socios_base, lines 60-68: one row per fragment, holding the
\* socio_pairs of the fragment
GroupByFragment(order, firsts) ==
  [k \in DOMAIN firsts |->
     [cpf_fragment |-> firsts[k].cpf_fragment,
      socio_pairs |-> SocioPairs(order, firsts[k].cpf_fragment)]]

\* _load_socios_base: None, or the frame of the fragment groups
_load_socios_base(file, order) ==
  IF SociosBaseIsNone(file)
  THEN [none |-> TRUE, grouped |-> EMPTY]
  ELSE [none |-> FALSE, grouped |-> GroupByFragment(order, FirstOfFragment(order))]

\* _matched_socios stopping at the first confirmed candidate
_matched_socios_FirstOnly(nome_norm, pairs) ==
  LET nome == IF nome_norm = NULL THEN EMPTY ELSE nome_norm
      confirmed(pair) ==
        /\ _has_similar_name(nome, IF pair.nome_norm = NULL THEN EMPTY ELSE pair.nome_norm)
        /\ NonEmpty(pair.cnpj_basico)
  IN  IF pairs = EMPTY \/ nome = EMPTY THEN EMPTY
      ELSE IF SelectSeq(pairs, confirmed) = EMPTY THEN EMPTY
      ELSE <<Head(SelectSeq(pairs, confirmed))>>

\* mark_founders._matched_socios: the confirmed candidates, in pair order
_matched_socios(nome_norm, pairs) ==
  LET nome == IF nome_norm = NULL THEN EMPTY ELSE nome_norm
      confirmed(pair) ==
        /\ _has_similar_name(nome, IF pair.nome_norm = NULL THEN EMPTY ELSE pair.nome_norm)
        /\ NonEmpty(pair.cnpj_basico)
  IN  IF pairs = EMPTY \/ nome = EMPTY THEN EMPTY
      ELSE SelectSeq(pairs, confirmed)

\* _load_empresas_base returns None
EmpresasBaseIsNone(file) ==
  \/ ~file.exists
  \/ file.rows = EMPTY
  \/ SelectSeq(file.rows, LAMBDA e : NonEmpty(e.cnpj_basico)) = EMPTY

\* _load_empresas_base: one row per company id, registration date parsed
EmpresasBase(file) ==
  LET valid == SelectSeq(file.rows, LAMBDA e : NonEmpty(e.cnpj_basico))
      firstOf(i) == \A j \in 1..(i - 1) : valid[j].cnpj_basico # valid[i].cnpj_basico
  IN  { [cnpj_basico |-> valid[i].cnpj_basico,
         data_inicio_atividade_date |-> _parse_date(valid[i].data_inicio_atividade)]
        : i \in {k \in DOMAIN valid : firstOf(k)} }

\* explode(["cnpj_basico", "data_associacao"]): one relation per list entry
\* of every row, in row order (a row with empty lists yields one null entry)
ExplodeRow(row) ==
  IF row.cnpj_basico = EMPTY
  THEN << [id_pessoa |-> row.id_pessoa, socio |-> row.socio,
           cnpj_basico |-> NULL, data_associacao |-> NULL] >>
  ELSE [j \in DOMAIN row.cnpj_basico |->
          [id_pessoa |-> row.id_pessoa, socio |-> row.socio,
           cnpj_basico |-> row.cnpj_basico[j],
           data_associacao |-> row.data_associacao[j]]]

Explode(rows) == Flatten([i \in DOMAIN rows |-> ExplodeRow(rows[i])])

\* the filter of lines 263-269 (and founder_analysis.py 64-70)
IsFounderCandidate(rel) ==
  /\ rel.socio
  /\ NonEmpty(rel.cnpj_basico)
  /\ NonEmpty(rel.data_associacao)

\* mark_founders 260-302: the id_pessoa values flagged as founders
FounderMatches(rows, empresas) ==
  LET candidates == SelectSeq(Explode(rows), IsFounderCandidate)
  IN  { candidates[i].id_pessoa : i \in
          { k \in DOMAIN candidates :
              \E e \in empresas :
                 /\ e.cnpj_basico = candidates[k].cnpj_basico
                 /\ e.data_inicio_atividade_date # NULLDATE
                 /\ _parse_date(candidates[k].data_associacao) # NULLDATE
                 /\ Abs(_parse_date(candidates[k].data_associacao)
                        - e.data_inicio_atividade_date) <= FOUNDER_WINDOW_DAYS } }

\* mark_founders 227-236: the exploded relations of one person id that
\* have a company id and a parsed date
PersonRelations(rows, id) ==
  SelectSeq(Flatten([i \in DOMAIN rows |->
                       [j \in DOMAIN rows[i].cnpj_basico |->
                          [id_pessoa |-> rows[i].id_pessoa,
                           cnpj_basico |-> rows[i].cnpj_basico[j],
                           date |-> rows[i].datas_associacao[j]]]]),
            LAMBDA r : /\ r.id_pessoa = id /\ id # NULL
                       /\ NonEmpty(r.cnpj_basico)
                       /\ r.date # NULLDATE)

\* line 242, agg(col.sort()): the dates of the relations of one company,
\* ascending, each as often as it occurs
SortedDatesOf(mine, c, sorted) ==
  Flatten([k \in DOMAIN sorted |->
             [n \in 1..Cardinality({m \in DOMAIN mine :
                                      mine[m].cnpj_basico = c /\ mine[m].date = sorted[k]})
                |-> sorted[k]]])

\* mark_founders 240-247: one entry per company of the person (group
\* order is not fixed by the code, so a set of entries)
CompanyDates(mine) ==
  { [cnpj_basico |-> c,
     datas |-> SortedDatesOf(mine, c,
                 SortDates({mine[m].date : m \in {n \in DOMAIN mine : mine[n].cnpj_basico = c}}))]
    : c \in {mine[m].cnpj_basico : m \in DOMAIN mine} }

\* mark_founders 227-254: per person id, the association dates of each company
AssociacoesPorEmpresa(rows, id) == CompanyDates(PersonRelations(rows, id))

\* mark_founders 115-128
REQUIRED_COLS ==
  {"id_pessoa", "matricula", "nome", "nome_norm", "idade", "faixa_etaria",
   "data_nascimento", "data_ingresso", "data_formacao", "ultimo_curso", "nivel",
   "codigo_curso"}

\* mark_founders 130-152 on the columns of the frame it is given: a missing
\* required column is added as a column of nulls; with a partner base the
\* fragment is taken from cpf_limpo, which polars must find
MarkFoundersColumns(columns, sociosIsNone) ==
  IF ~sociosIsNone /\ "cpf_limpo" \notin columns
  THEN [status |-> "error", error |-> "ColumnNotFoundError",
        placeholders |-> REQUIRED_COLS \ columns]
  ELSE [status |-> "ok", error |-> "", placeholders |-> REQUIRED_COLS \ columns]

\* mark_founders, the branch of lines 137-149 (no partner base)
MarkFoundersEmpty(df) ==
  [i \in DOMAIN df |->
     [id_pessoa |-> df[i].id_pessoa, nome |-> df[i].nome, nome_norm |-> df[i].nome_norm,
      socio_cpf |-> FALSE, socio_nome |-> FALSE, socio |-> FALSE, fundador |-> FALSE,
      cnpj_basico |-> EMPTY, data_associacao |-> EMPTY, datas_associacao |-> EMPTY,
      data_associacao_primeira |-> NULLDATE, datas_associacao_por_empresa |-> {}]]

\* line 155 as an inner join: the rows without a fragment group are lost
JoinSocios_Inner(df, order) ==
  SelectSeq([i \in DOMAIN df |->
               [row |-> df[i],
                socio_pairs |-> SocioPairs(order, MapElements(_middle_cpf_fragment, df[i].cpf_limpo))]],
            LAMBDA j : j.socio_pairs # EMPTY)

\* mark_founders 151-164: the left join of the alumni rows with the
\* fragment groups; a row without a group gets an empty candidate list
JoinSocios(df, order) ==
  [i \in DOMAIN df |->
     [row |-> df[i],
      socio_pairs |-> SocioPairs(order, MapElements(_middle_cpf_fragment, df[i].cpf_limpo))]]

\* line 208 with the name signal left out
SocioFlag_FragmentOnly(socio_cpf, socio_nome) == socio_cpf

\* mark_founders 208
SocioFlag(socio_cpf, socio_nome) == socio_cpf /\ socio_nome

\* mark_founders 204-225: the columns computed from the confirmed
\* candidates of one row
MatchedColumns(row, socio_cpf, socio_nome, matched, datas) ==
  [id_pessoa |-> row.id_pessoa, nome |-> row.nome, nome_norm |-> row.nome_norm,
   socio_cpf |-> socio_cpf, socio_nome |-> socio_nome,
   socio |-> SocioFlag(socio_cpf, socio_nome),
   cnpj_basico |-> [j \in DOMAIN matched |-> matched[j].cnpj_basico],
   data_associacao |-> [j \in DOMAIN matched |-> matched[j].data_associacao],
   datas_associacao |-> datas,
   data_associacao_primeira |-> MinDate(Range(datas))]

\* lines 210-218 with the parsed dates in the opposite order
MatchedRow_DatesReversed(row, socio_pairs, matched) ==
  MatchedColumns(row, Len(socio_pairs) > 0, Len(matched) > 0, matched,
                 [j \in DOMAIN matched |->
                    _parse_date(matched[Len(matched) + 1 - j].data_associacao)])

\* mark_founders 186-218: the confirmed candidates and their parsed dates
MatchedRow(row, socio_pairs, matched) ==
  MatchedColumns(row, Len(socio_pairs) > 0, Len(matched) > 0, matched,
                 [j \in DOMAIN matched |-> _parse_date(matched[j].data_associacao)])

\* mark_founders 166-225: the partner columns of one joined row
MatchRow(joined) ==
  MatchedRow(joined.row, joined.socio_pairs,
             _matched_socios(joined.row.nome_norm, joined.socio_pairs))

\* mark_founders 291-302: the founder flag joined back on id_pessoa, and
\* the per-company association dates
WithFounders(matched, founders) ==
  [i \in DOMAIN matched |->
     [id_pessoa |-> matched[i].id_pessoa, nome |-> matched[i].nome,
      nome_norm |-> matched[i].nome_norm,
      socio_cpf |-> matched[i].socio_cpf, socio_nome |-> matched[i].socio_nome,
      socio |-> matched[i].socio,
      fundador |-> matched[i].id_pessoa # NULL /\ matched[i].id_pessoa \in founders,
      cnpj_basico |-> matched[i].cnpj_basico,
      data_associacao |-> matched[i].data_associacao,
      datas_associacao |-> matched[i].datas_associacao,
      data_associacao_primeira |-> matched[i].data_associacao_primeira,
      datas_associacao_por_empresa |->
        AssociacoesPorEmpresa(matched, matched[i].id_pessoa)]]

\* mark_founders 256-302: no founder when the company base is missing
MarkFounderColumns(matched, empresasFile) ==
  WithFounders(matched,
               IF EmpresasBaseIsNone(empresasFile) THEN {}
               ELSE FounderMatches(matched, EmpresasBase(empresasFile)))

\* mark_founders 151-225: every joined row with its partner columns
MatchRows(joined) == [i \in DOMAIN joined |-> MatchRow(joined[i])]

\* mark_founders 113-328
mark_founders(df, sociosFile, empresasFile, order) ==
  IF SociosBaseIsNone(sociosFile) THEN MarkFoundersEmpty(df)
  ELSE MarkFounderColumns(MatchRows(JoinSocios(df, order)), empresasFile)

\* ------------------------------------------------------------------------
\* etl/founder_analysis.py
\* ------------------------------------------------------------------------

MAX_FOUNDER_GAP_DAYS == 7

\* label_socios_fundadores 98-103: the left join of one relation with the
\* company table and the day gap of every joined row (NULLDATE: null)
JoinEmpresas(rel, empresaRows) ==
  LET hits == SelectSeq(empresaRows, LAMBDA e : e.cnpj_basico = rel.cnpj_basico)
      assoc == _parse_date(rel.data_associacao)
      joined(inicio) ==
        [id_pessoa |-> rel.id_pessoa,
         cnpj_basico |-> rel.cnpj_basico,
         data_associacao_date |-> assoc,
         data_inicio_atividade_date |-> inicio,
         diferenca_dias |-> IF assoc = NULLDATE \/ inicio = NULLDATE THEN NULLDATE
                            ELSE Abs(assoc - inicio)]
  IN  IF hits = EMPTY THEN <<joined(NULLDATE)>>
      ELSE [k \in DOMAIN hits |-> joined(_parse_date(hits[k].data_inicio_atividade))]

\* line 107 with a strict bound
founder_condition_Strict(j, max_gap_days) ==
  /\ j.diferenca_dias # NULLDATE
  /\ j.diferenca_dias < max_gap_days
  /\ j.data_inicio_atividade_date # NULLDATE
  /\ j.data_associacao_date # NULLDATE

\* label_socios_fundadores 105-110
founder_condition(j, max_gap_days) ==
  /\ j.diferenca_dias # NULLDATE
  /\ j.diferenca_dias <= max_gap_days
  /\ j.data_inicio_atividade_date # NULLDATE
  /\ j.data_associacao_date # NULLDATE

\* label_socios_fundadores 60-71, 94-103: the joined relations of the
\* partners of the alumni table
JoinedRelations(rows, empresaRows) ==
  LET socios_long == SelectSeq(Explode(rows), IsFounderCandidate)
  IN  Flatten([k \in DOMAIN socios_long |-> JoinEmpresas(socios_long[k], empresaRows)])

\* label_socios_fundadores 105-121: the joined relations that pass the
\* founder condition
FoundingRelations(joined, max_gap_days) ==
  SelectSeq(joined, LAMBDA j : founder_condition(j, max_gap_days))

\* label_socios_fundadores 126-133: the struct kept of a founding relation
FounderStructs(mine) ==
  [k \in DOMAIN mine |->
     [cnpj_basico |-> mine[k].cnpj_basico,
      data_associacao |-> mine[k].data_associacao_date,
      data_inicio_atividade |-> mine[k].data_inicio_atividade_date,
      diferenca_dias |-> mine[k].diferenca_dias]]

\* label_socios_fundadores 123-136: the founding relations of one person id
FounderRelations(founding, id) ==
  FounderStructs(SelectSeq(founding, LAMBDA j : j.id_pessoa = id))

\* the person ids with at least one founding relation
FounderIds(founding) == { founding[k].id_pessoa : k \in DOMAIN founding }

\* label_socios_fundadores 123-136: the founders frame, one entry per
\* person id with a founding relation
FoundersOf(founding) ==
  { [id_pessoa |-> id, fundador_relacoes |-> FounderRelations(founding, id)]
    : id \in FounderIds(founding) }

\* label_socios_fundadores._cnpjs_from_relacoes
_cnpjs_from_relacoes(relacoes) ==
  LET kept == SelectSeq(relacoes, LAMBDA rel : NonEmpty(rel.cnpj_basico))
  IN  [k \in DOMAIN kept |-> kept[k].cnpj_basico]

\* lines 85-89 and 140-144: the three columns overwritten with literals
LabelNoFounders(row) ==
  [row EXCEPT !.fundador_relacoes = EMPTY, !.cnpj_fundador = EMPTY,
              !.socio_fundador = FALSE]

\* lines 161-175 without the fill of 162-169: the lists of a row the join
\* did not match stay null
LabelJoinFresh_NoFill(row, rels, ids) ==
  IF row.id_pessoa # NULL /\ row.id_pessoa \in ids
  THEN [row EXCEPT !.fundador_relacoes = rels,
                   !.cnpj_fundador = _cnpjs_from_relacoes(rels),
                   !.socio_fundador = Len(rels) > 0]
  ELSE [row EXCEPT !.fundador_relacoes = NULL, !.cnpj_fundador = NULL,
                   !.socio_fundador = FALSE]

\* lines 161-175 on a table without the three columns: the left join on
\* id_pessoa brings them in and the nulls of unmatched rows are filled
LabelJoinFresh(row, rels, ids) ==
  IF row.id_pessoa # NULL /\ row.id_pessoa \in ids
  THEN [row EXCEPT !.fundador_relacoes = rels,
                   !.cnpj_fundador = _cnpjs_from_relacoes(rels),
                   !.socio_fundador = Len(rels) > 0]
  ELSE LabelNoFounders(row)

\* lines 161-175 on a table that already has the three columns: the join
\* names the incoming columns *_right, and the when/otherwise of 162-175
\* finds the old columns non-null and keeps them
LabelJoinSuffixed(row, rels, ids) ==
  IF row.id_pessoa # NULL /\ row.id_pessoa \in ids
  THEN [row EXCEPT !.fundador_relacoes_right = rels,
                   !.cnpj_fundador_right = _cnpjs_from_relacoes(rels),
                   !.socio_fundador_right = "true"]
  ELSE [row EXCEPT !.fundador_relacoes_right = EMPTY,
                   !.cnpj_fundador_right = EMPTY,
                   !.socio_fundador_right = "null"]

\* label_socios_fundadores 60-136: the founders frame of a call
FoundersFrame(rows, empresaRows, max_gap_days) ==
  FoundersOf(FoundingRelations(JoinedRelations(rows, empresaRows), max_gap_days))

\* the fundador_relacoes the founders frame holds for a person id
RelationsOf(founders, id) ==
  IF \E f \in founders : f.id_pessoa = id
  THEN (CHOOSE f \in founders : f.id_pessoa = id).fundador_relacoes
  ELSE EMPTY

\* label_socios_fundadores 73-92, 138-177: the alumni file after a call that
\* computed the founders frame
LabelledFile(egressosFile, founders) ==
  IF founders = {}
  THEN [egressosFile EXCEPT !.labelled = TRUE,
          !.rows = [i \in DOMAIN egressosFile.rows |-> LabelNoFounders(egressosFile.rows[i])]]
  ELSE IF egressosFile.labelled
  THEN [egressosFile EXCEPT !.right = TRUE,
          !.rows = [i \in DOMAIN egressosFile.rows |->
                      LabelJoinSuffixed(egressosFile.rows[i],
                                        RelationsOf(founders, egressosFile.rows[i].id_pessoa),
                                        {f.id_pessoa : f \in founders})]]
  ELSE [egressosFile EXCEPT !.labelled = TRUE,
          !.rows = [i \in DOMAIN egressosFile.rows |->
                      LabelJoinFresh(egressosFile.rows[i],
                                     RelationsOf(founders, egressosFile.rows[i].id_pessoa),
                                     {f.id_pessoa : f \in founders})]]

\* the outcome of a call that raised e: nothing is written
LabelError(egressosFile, e) ==
  [status |-> "error", error |-> e, file |-> egressosFile, founders |-> {}]

\* label_socios_fundadores 138-177, given the founders frame: the join of a
\* table that has both the old and the *_right columns raises
LabelOutcome(egressosFile, founders) ==
  IF founders # {} /\ egressosFile.labelled /\ egressosFile.right
  THEN LabelError(egressosFile, "DuplicateError")
  ELSE [status |-> "ok", error |-> "", file |-> LabelledFile(egressosFile, founders),
        founders |-> founders]

\* label_socios_fundadores: the outcome of one call, [status, error, file,
\* founders]: file is the alumni parquet after the call, founders the
\* founders frame the call computed
label_socios_fundadores(egressosFile, empresasFile, max_gap_days) ==
  IF max_gap_days < 0 THEN LabelError(egressosFile, "ValueError")
  ELSE IF ~egressosFile.exists \/ ~empresasFile.exists
  THEN LabelError(egressosFile, "FileNotFoundError")
  ELSE LabelOutcome(egressosFile,
                    FoundersFrame(egressosFile.rows, empresasFile.rows, max_gap_days))

\* label_socios_fundadores 44
LABEL_REQUIRED_COLS == {"id_pessoa", "socio", "cnpj_basico", "data_associacao"}

\* lines 30-49 with the column check made after the write of 138-147
LabelOnColumns_WriteFirst(egressosFile, columns, empresasFile, max_gap_days) ==
  IF max_gap_days >= 0 /\ egressosFile.exists /\ empresasFile.exists
     /\ LABEL_REQUIRED_COLS \ columns # {}
  THEN [status |-> "error", error |-> "ValueError",
        file |-> LabelledFile(egressosFile, {}), founders |-> {}]
  ELSE label_socios_fundadores(egressosFile, empresasFile, max_gap_days)

\* label_socios_fundadores 30-49 on an alumni parquet with the given
\* columns: after the checks of 30-35, a parquet that lacks a required
\* column raises ValueError before anything is computed
LabelOnColumns(egressosFile, columns, empresasFile, max_gap_days) ==
  IF max_gap_days >= 0 /\ egressosFile.exists /\ empresasFile.exists
     /\ LABEL_REQUIRED_COLS \ columns # {}
  THEN LabelError(egressosFile, "ValueError")
  ELSE label_socios_fundadores(egressosFile, empresasFile, max_gap_days)

\* ------------------------------------------------------------------------
\* etl/transform.py, etl/export_powerbi.py, etl/build_company_dataset.py
\* ------------------------------------------------------------------------

\* basic_transform 74-86: normalised name, cleaned tax id, identity hash
basic_transform(df) ==
  [i \in DOMAIN df |->
     [cpf |-> df[i].cpf, nome |-> df[i].nome,
      nome_norm |-> MapElements(normalize_name, df[i].nome),
      cpf_limpo |-> MapElements(_clean_cpf, df[i].cpf),
      id_pessoa |-> MapElements(LAMBDA x : hash_identifier(x, CPF_SALT),
                                MapElements(_clean_cpf, df[i].cpf))]]

\* run_pipeline 72-83 and export_parquet: the columns kept for the BI
\* file; the file is written anew, without the founder columns
ExportedFile(df) ==
  [exists |-> TRUE, labelled |-> FALSE, right |-> FALSE,
   rows |-> [i \in DOMAIN df |->
      [id_pessoa |-> df[i].id_pessoa, nome |-> df[i].nome, nome_norm |-> df[i].nome_norm,
       socio_cpf |-> df[i].socio_cpf, socio_nome |-> df[i].socio_nome,
       socio |-> df[i].socio,
       cnpj_basico |-> df[i].cnpj_basico, data_associacao |-> df[i].data_associacao,
       fundador_relacoes |-> EMPTY, cnpj_fundador |-> EMPTY, socio_fundador |-> FALSE,
       fundador_relacoes_right |-> EMPTY, cnpj_fundador_right |-> EMPTY,
       socio_fundador_right |-> "absent"]]]

\* _collect_cnpjs_from_parquet 204-211
_collect_cnpjs_from_parquet(file) ==
  { c \in UNION {Range(file.rows[i].cnpj_basico) : i \in DOMAIN file.rows} : NonEmpty(c) }

\* build_company_dataset 226-288: one row per target company id, sorted,
\* with the activity-start date of its head-office record (null when the
\* extract has none)
CompanyDataset(targets, extract) ==
  LET sorted == SortTexts(targets)
  IN  [k \in DOMAIN sorted |->
         [cnpj_basico |-> sorted[k],
          data_inicio_atividade |->
            IF sorted[k] \in DOMAIN extract.inicio THEN extract.inicio[sorted[k]] ELSE NULL]]

\* ------------------------------------------------------------------------
\* Bounds and the data the inputs are drawn from
\* ------------------------------------------------------------------------

\* rows of the alumni spreadsheet
MaxPersons == 2

\* rows of socios.parquet
MaxSocios == 2

\* runs of the pipeline
MaxRuns == 2

CPF_A == <<"1", "2", "3", ".", "4", "5", "6", ".", "7", "8", "9", "-", "0", "9">>

CPF_BAD == <<"1", "2", "3", "4", "5", "6", "7", "8", "9", "0", "0">>

FRAG_A == <<"4", "5", "6", "7", "8", "9">>

FRAG_B == <<"4", "4", "4", "7", "7", "7">>

NAME_ANA_RAW == <<" ", "A", "n", "a", " ", " ", "b", " ", "L", "i", "m", "a">>

NAME_ANA == <<"A", "N", "A", " ", "B", " ", "L", "I", "M", "A">>

NAME_ANA_C == <<"A", "N", "A", " ", "C", " ", "L", "I", "M", "A">>

NAME_SOUSA == <<"A", "N", "A", " ", "L", "I", "M", "A", " ", "S", "O", "U", "S", "A">>

NAME_SOUZAS == <<"A", "N", "A", " ", "L", "I", "M", "A", " ", "S", "O", "U", "Z", "A", "S">>

CNPJ_1 == <<"0", "1">>

CNPJ_2 == <<"0", "2">>

D_0101_ISO == <<"2", "0", "2", "0", "-", "0", "1", "-", "0", "1">>

D_0108 == <<"2", "0", "2", "0", "0", "1", "0", "8">>

D_0109 == <<"2", "0", "2", "0", "0", "1", "0", "9">>

D_0301 == <<"2", "0", "2", "0", "0", "3", "0", "1">>

D_BAD == <<"2", "0", "2", "0", "-", "1", "3", "-", "0", "1">>

\* rows of the alumni spreadsheet, in sheet order: two rows of one tax id
\* under different names, a row whose tax id fails validation, and the
\* first row once more
PersonPool ==
  << [cpf |-> CPF_A, nome |-> NAME_ANA_RAW],
     [cpf |-> CPF_A, nome |-> NAME_SOUSA],
     [cpf |-> CPF_BAD, nome |-> NAME_ANA_RAW],
     [cpf |-> CPF_A, nome |-> NAME_ANA_RAW] >>

\* rows of socios.parquet
SocioPool ==
  { [cpf_fragment |-> FRAG_A, nome |-> NAME_ANA, cnpj_basico |-> CNPJ_1,
     data_entrada_sociedade |-> D_0101_ISO],
    [cpf_fragment |-> FRAG_A, nome |-> NAME_ANA_C, cnpj_basico |-> CNPJ_2,
     data_entrada_sociedade |-> D_0109],
    [cpf_fragment |-> FRAG_A, nome |-> NAME_SOUZAS, cnpj_basico |-> CNPJ_1,
     data_entrada_sociedade |-> D_0108],
    [cpf_fragment |-> FRAG_A, nome |-> NAME_ANA, cnpj_basico |-> EMPTY,
     data_entrada_sociedade |-> D_BAD],
    [cpf_fragment |-> EMPTY, nome |-> NAME_ANA, cnpj_basico |-> CNPJ_1,
     data_entrada_sociedade |-> D_0101_ISO],
    [cpf_fragment |-> FRAG_B, nome |-> NAME_ANA, cnpj_basico |-> CNPJ_2,
     data_entrada_sociedade |-> D_0109] }

\* activity-start dates of the head offices in the registry extract
ExtractPool ==
  { (CNPJ_1 :> D_0108 @@ CNPJ_2 :> D_0101_ISO),
    (CNPJ_1 :> D_0109 @@ CNPJ_2 :> D_0301),
    (CNPJ_1 :> NULL @@ CNPJ_2 :> D_0108) }

\* max_gap_days of a direct call
GapChoices == {-1, 7, 8}

\* the k-th least element of a set of numbers
KthOf(I, k) == CHOOSE x \in I : Cardinality({y \in I : y < x}) = k - 1

\* the sheets made of at most n rows of s, kept in the order of s
SheetsUpTo(s, n) ==
  { [k \in 1..Cardinality(I) |-> s[KthOf(I, k)]]
    : I \in {J \in SUBSET DOMAIN s : Cardinality(J) <= n} }

SubsetsUpTo(S, n) == {x \in SUBSET S : Cardinality(x) <= n}

NoFile == [exists |-> FALSE, labelled |-> FALSE, right |-> FALSE, rows |-> EMPTY]

NoCall == [status |-> "none", error |-> "", max_gap_days |-> 0, rows |-> EMPTY,
           empresas |-> EMPTY, founders |-> {}]

\* the decimal digits of a number, zero-padded to two and to four places
Pad2(n) == <<DigitChars[((n \div 10) % 10) + 1], DigitChars[(n % 10) + 1]>>

Pad4(n) == Pad2(n \div 100) \o Pad2(n % 100)

\* a calendar triple written as YYYY-MM-DD and as YYYYMMDD
FormatIso(y, m, d) == Pad4(y) \o <<"-">> \o Pad2(m) \o <<"-">> \o Pad2(d)

FormatCompact(y, m, d) == Pad4(y) \o Pad2(m) \o Pad2(d)

\* year, month, day triples, some of which are no calendar date
DateFields ==
  {<<y, m, d>> : y \in {2020, 2021}, m \in {1, 2, 13}, d \in {0, 1, 5, 9, 29, 30}}

\* texts of a date column that are neither of the two forms
OtherDateTexts ==
  { NULL, EMPTY,
    <<"2", "0", "2", "0", "-", "1", "-", "5">>,
    <<"2", "0", "2", "0", "/", "0", "1", "/", "0", "5">>,
    <<"0", "5", "-", "0", "1", "-", "2", "0", "2", "0">>,
    <<"2", "0", "2", "0", "0", "1", "0", "5", "0">>,
    <<"a", "b", "c", "d", "e", "f", "g", "h">> }

\* the cells of a date column: the text, how it was written, and the
\* calendar triple behind the two date forms
DateCells ==
  {[text |-> FormatIso(f[1], f[2], f[3]), form |-> "iso", fields |-> f] : f \in DateFields}
  \cup {[text |-> FormatCompact(f[1], f[2], f[3]), form |-> "compact", fields |-> f]
          : f \in DateFields}
  \cup {[text |-> t, form |-> "other", fields |-> <<0, 0, 0>>] : t \in OtherDateTexts}

\* the registration dates a relation is compared with
RegistrationCells ==
  {c \in DateCells :
     \/ c.form = "other" /\ c.text \in {NULL, EMPTY}
     \/ c.form # "other" /\ c.fields \in {<<2020, 1, 1>>, <<2020, 1, 9>>, <<2020, 2, 29>>,
                                          <<2021, 2, 29>>, <<2020, 13, 1>>}}

\* digits of the longest digit string
MaxDigits == 12

\* characters of the longest name given to normalize_name on its own
MaxNameLen == 4

\* the digit string of n digits that starts at digit k and counts on by step
DigitString(n, k, step) == [i \in 1..n |-> DigitChars[((k + (i - 1) * step) % 10) + 1]]

\* digit strings of every length up to MaxDigits, and the null cell
DigitCells ==
  {NULL} \cup {DigitString(n, k, step) : n \in 0..MaxDigits, k \in {1, 9}, step \in {1, 3}}

\* cells of the tax-id column of the spreadsheet: blank, empty, valid with
\* and without punctuation, bad check digits, one digit repeated, 10 and 12
\* digits, no digit at all
CpfCells ==
  { NULL, EMPTY, CPF_A, SelectDigits(CPF_A), CPF_BAD,
    [i \in 1..11 |-> "1"],
    SubSeq(CPF_BAD, 1, 10),
    SelectDigits(CPF_A) \o <<"0">>,
    <<"a", "b", "c">> }

\* rows of socios.parquet for the partner index: those of SocioPool, the
\* first of them with its name in another spelling, and a row without fragment
IndexPool ==
  SocioPool \cup
  { [cpf_fragment |-> FRAG_A, nome |-> NAME_ANA_RAW, cnpj_basico |-> CNPJ_1,
     data_entrada_sociedade |-> D_0101_ISO],
    [cpf_fragment |-> NULL, nome |-> NAME_ANA, cnpj_basico |-> CNPJ_2,
     data_entrada_sociedade |-> D_0109] }

\* socios.parquet: missing, or with and without the date column
SociosFiles ==
  {[exists |-> FALSE, has_date |-> FALSE, rows |-> {}]}
  \cup {[exists |-> TRUE, has_date |-> h, rows |-> r]
          : h \in BOOLEAN, r \in SubsetsUpTo(IndexPool, MaxSocios)}

\* the masked document of a natural person in the registry: ***456789**
DOC_MASKED == <<"*", "*", "*", "4", "5", "6", "7", "8", "9", "*", "*">>

\* rows of the registry's partner files: natural persons with and without an
\* entry date, a legal entity, a document too short, a document in full,
\* and a blank document
RegistryPool ==
  { [cnpj_basico |-> CNPJ_1, identificador_socio |-> <<"2">>, nome_socio |-> NAME_ANA_RAW,
     cpf_cnpj_socio |-> DOC_MASKED, data_entrada_sociedade |-> D_0108],
    [cnpj_basico |-> CNPJ_2, identificador_socio |-> <<"2">>, nome_socio |-> NAME_SOUSA,
     cpf_cnpj_socio |-> DOC_MASKED, data_entrada_sociedade |-> NULL],
    [cnpj_basico |-> CNPJ_1, identificador_socio |-> <<"1">>, nome_socio |-> NAME_SOUZAS,
     cpf_cnpj_socio |-> SelectDigits(CPF_A) \o <<"0", "0", "1">>,
     data_entrada_sociedade |-> D_0109],
    [cnpj_basico |-> CNPJ_2, identificador_socio |-> <<"2">>, nome_socio |-> NAME_ANA,
     cpf_cnpj_socio |-> <<"*", "*", "*", "4", "5", "*", "*">>,
     data_entrada_sociedade |-> D_0109],
    [cnpj_basico |-> CNPJ_2, identificador_socio |-> <<"2">>, nome_socio |-> NAME_ANA,
     cpf_cnpj_socio |-> CPF_A, data_entrada_sociedade |-> D_0101_ISO],
    [cnpj_basico |-> CNPJ_1, identificador_socio |-> <<"2">>, nome_socio |-> NAME_ANA_C,
     cpf_cnpj_socio |-> NULL, data_entrada_sociedade |-> D_0301] }

\* socios.parquet with the date column
DatedSociosFiles ==
  {[exists |-> TRUE, has_date |-> TRUE, rows |-> r] : r \in SubsetsUpTo(SocioPool, MaxSocios)}

\* the columns of the frame given to mark_founders: those of
\* basic_transform less at most two
PersonColumns ==
  {(REQUIRED_COLS \cup {"cpf_limpo"}) \ dropped
     : dropped \in SubsetsUpTo(REQUIRED_COLS \cup {"cpf_limpo"}, 2)}

\* salts: two plain ones, the first followed by zero bytes, and two longer
\* than the block
SaltPool ==
  { <<"s", "1">>, <<"s", "2">>, <<"s", "1", NUL>>, <<"s", "1", NUL, NUL>>,
    [i \in 1..(HMAC_BLOCK_SIZE + 1) |-> "k"],
    [i \in 1..(HMAC_BLOCK_SIZE + 1) |-> IF i = 1 THEN "j" ELSE "k"] }

\* values to hash: null, empty, blank, digits with and without blanks around
HashValues ==
  { NULL, EMPTY, <<" ", " ">>, <<" ", "\t">>, <<"1", "2", "3">>, <<" ", "1", "2", "3", " ">>,
    SelectDigits(CPF_A) }

\* characters of names: letters of both cases, blanks, an accented letter,
\* and letters that unidecode spells with several characters
NameChars == {"a", "B", " ", "\t", "ã", "ß", ZHONG}

\* the names of at most MaxNameLen characters, and the null cell
NameCells ==
  {NULL} \cup UNION {[1..n -> NameChars] : n \in 0..MaxNameLen}

\* alumni parquets given to label_socios_fundadores: the required columns
\* less at most one
LabelColumnSets ==
  {LABEL_REQUIRED_COLS \ dropped : dropped \in SubsetsUpTo(LABEL_REQUIRED_COLS, 1)}

\* the arguments of the functions called on their own
FunctionArgs ==
  {[kind |-> "dates", a |-> a, b |-> b] : a \in DateCells, b \in RegistrationCells}
  \cup {[kind |-> "digits", d |-> d] : d \in DigitCells}
  \cup {[kind |-> "person", cpf |-> c, nome |-> n]
          : c \in CpfCells, n \in {NAME_ANA_RAW, NAME_SOUSA}}
  \cup {[kind |-> "socios", file |-> f] : f \in SociosFiles}
  \cup {[kind |-> "registry", rows |-> r] : r \in SubsetsUpTo(RegistryPool, MaxSocios)}
  \cup UNION {{[kind |-> "tables", sheet |-> s, at |-> i, socios |-> f, inicio |-> x]
                 : i \in DOMAIN s, f \in DatedSociosFiles, x \in ExtractPool}
               : s \in SheetsUpTo(PersonPool, MaxPersons)}
  \cup {[kind |-> "columns", columns |-> c, socios_none |-> n]
          : c \in PersonColumns, n \in BOOLEAN}
  \cup {[kind |-> "hash", value |-> v, salt_a |-> a, salt_b |-> b]
          : v \in HashValues, a \in SaltPool, b \in SaltPool}
  \cup {[kind |-> "name", name |-> n] : n \in NameCells}
  \cup {[kind |-> "label", socios |-> f, inicio |-> x, columns |-> c,
          egressos_exists |-> e, empresas_exists |-> m, max_gap_days |-> g]
          : f \in {d \in DatedSociosFiles : Cardinality(d.rows) = 1}, x \in ExtractPool,
            c \in LabelColumnSets, e \in BOOLEAN, m \in BOOLEAN, g \in GapChoices}

NoArg == [kind |-> "none"]

NoReturn == [fn |-> "none"]

\* ------------------------------------------------------------------------
\* cnpj/download_cnpj.py, cnpj/prepare_socios.py run_prepare_socios
\* ------------------------------------------------------------------------

\* str.lower() on one character
LowerChar(c) ==
  IF c \in Range(UpperChars)
  THEN LowerChars[CHOOSE i \in DOMAIN UpperChars : UpperChars[i] = c]
  ELSE c

LowerText(s) == [i \in DOMAIN s |-> LowerChar(s[i])]

\* str.startswith
StartsWith(s, p) == Len(p) <= Len(s) /\ SubSeq(s, 1, Len(p)) = p

\* the length of the run of digits (or of non-digits) a text begins with
RECURSIVE RunLength(_, _)
RunLength(s, digits) ==
  IF s = EMPTY \/ IsDigit(Head(s)) # digits THEN 0
  ELSE 1 + RunLength(Tail(s), digits)

\* download_cnpj.py _natural_key: the runs of re.split(r"(\d+)", name), a
\* run of digits as a number, any other run lower-cased
RECURSIVE _natural_key(_)
_natural_key(name) ==
  IF name = EMPTY THEN EMPTY
  ELSE LET digits == IsDigit(Head(name))
           n == RunLength(name, digits)
       IN  << [digits |-> digits,
               number |-> IF digits THEN ToInt(SubSeq(name, 1, n)) ELSE 0,
               text |-> IF digits THEN EMPTY ELSE LowerText(SubSeq(name, 1, n))] >>
           \o _natural_key(SubSeq(name, n + 1, Len(name)))

\* the order of two keys as tuples (the names of the index begin with a
\* letter, so a number is only ever compared with a number)
RECURSIVE KeyLess(_, _)
KeyLess(a, b) ==
  IF b = EMPTY THEN FALSE
  ELSE IF a = EMPTY THEN TRUE
  ELSE IF Head(a) = Head(b) THEN KeyLess(Tail(a), Tail(b))
  ELSE IF Head(a).digits /\ Head(b).digits THEN Head(a).number < Head(b).number
  ELSE IF Head(a).digits # Head(b).digits THEN Head(a).digits
  ELSE TextLess(Head(a).text, Head(b).text)

\* sorted(set(names), key=_natural_key)
RECURSIVE NaturalSort(_)
NaturalSort(S) ==
  IF S = {} THEN EMPTY
  ELSE LET first == CHOOSE t \in S :
                      \A u \in S \ {t} : ~KeyLess(_natural_key(u), _natural_key(t))
       IN  <<first>> \o NaturalSort(S \ {first})

\* re.split(r"[;,]", text)
RECURSIVE SplitPrefixes(_)
SplitPrefixes(s) ==
  IF \A i \in DOMAIN s : s[i] \notin {";", ","} THEN <<s>>
  ELSE LET cut == CHOOSE i \in DOMAIN s :
                    s[i] \in {";", ","} /\ \A j \in 1..(i - 1) : s[j] \notin {";", ","}
       IN  <<SubSeq(s, 1, cut - 1)>> \o SplitPrefixes(SubSeq(s, cut + 1, Len(s)))

\* the tokens that stand for every archive
ALL_TOKENS == {<<"a", "l", "l">>, <<"t", "o", "d", "o", "s">>, <<"*">>}

\* download_cnpj.py _normalize_prefixes and prepare_socios.py
\* _normalize_prefix_tokens on a text or None: the lower-cased tokens, or
\* None (here the empty tuple, which the callers treat alike) when there
\* is none or one of them stands for every archive
_normalize_prefixes(prefixes) ==
  IF prefixes = NULL THEN EMPTY
  ELSE LET parts == SplitPrefixes(prefixes)
           cleaned == SelectSeq([i \in DOMAIN parts |-> LowerText(Strip(parts[i]))],
                                LAMBDA t : t # EMPTY)
       IN  IF cleaned = EMPTY \/ \E i \in DOMAIN cleaned : cleaned[i] \in ALL_TOKENS
           THEN EMPTY
           ELSE cleaned

\* the names that begin with one of the prefixes, any case
MatchesPrefix(name, normalized) ==
  \E i \in DOMAIN normalized : StartsWith(LowerText(name), normalized[i])

\* download_cnpj.py list_files: the archives of the month in natural
\* order, filtered by the prefixes when there are any
list_files(names, normalized) ==
  IF normalized = EMPTY THEN NaturalSort(names)
  ELSE SelectSeq(NaturalSort(names), LAMBDA f : MatchesPrefix(f, normalized))

\* files[:max_files] when max_files >= 0
Truncate(files, max_files) ==
  IF max_files >= 0 /\ max_files < Len(files) THEN SubSeq(files, 1, max_files) ELSE files

\* the months of the online index, and a directory of CNPJ_BASE_DIR that is
\* not a month
MONTH_OLD == <<"2", "0", "2", "4", "-", "0", "1">>

MONTH_NEW == <<"2", "0", "2", "4", "-", "0", "2">>

DIR_OTHER == <<"t", "m", "p">>

IndexMonths == {MONTH_OLD, MONTH_NEW}

DirNames == IndexMonths \cup {DIR_OTHER}

\* the archives the index lists under every month
ZIP_CNAES == <<"C", "n", "a", "e", "s", ".", "z", "i", "p">>

ZIP_SOCIOS0 == <<"S", "o", "c", "i", "o", "s", "0", ".", "z", "i", "p">>

ZIP_SOCIOS1 == <<"S", "o", "c", "i", "o", "s", "1", ".", "z", "i", "p">>

IndexZips == {ZIP_CNAES, ZIP_SOCIOS0, ZIP_SOCIOS1}

\* a path that does not exist
NoBytes == [exists |-> FALSE, size |-> 0]

\* an archive neither downloaded nor begun
NoFiles == [final |-> NoBytes, part |-> NoBytes]

\* _stream_download 60: open(tmp, "wb") creates or truncates <name>.part
OpenPart(file) == [file EXCEPT !.part = [exists |-> TRUE, size |-> 0]]

\* lines 61-64 writing to the final name
WriteChunk_InPlace(file) ==
  [file EXCEPT !.final = [exists |-> TRUE, size |-> file.part.size + 1],
               !.part.size = @ + 1]

\* _stream_download 61-64: one chunk appended to <name>.part
WriteChunk(file) == [file EXCEPT !.part.size = @ + 1]

\* _stream_download 65: tmp.replace(dest)
Replace(file) == [file EXCEPT !.final = file.part, !.part = NoBytes]

\* download_many 206: dst.exists() and dst.stat().st_size > 0
AlreadyThere(file) == file.final.exists /\ file.final.size > 0

\* prepare_socios.py _MONTH_DIR_PATTERN
IsMonthName(name) ==
  /\ Len(name) = 7
  /\ name[5] = "-"
  /\ \A i \in {1, 2, 3, 4, 6, 7} : IsDigit(name[i])

\* prepare_socios.py _list_local_months: the AAAA-MM directories under
\* CNPJ_BASE_DIR, sorted
_list_local_months(dirs) ==
  SortTexts({m \in DOMAIN dirs : dirs[m].exists /\ IsMonthName(m)})

\* settings.py 32-33 with SOCIOS_DOWNLOAD_PREFIXES unset
SOCIOS_DOWNLOAD_PREFIXES == NULL

\* run_prepare_socios 348
EffectivePrefix(download_prefix) ==
  IF download_prefix # NULL THEN download_prefix ELSE SOCIOS_DOWNLOAD_PREFIXES

\* run_prepare_socios 376-378: the archives present in the month directory
\* under their final name, sorted as paths and filtered by the prefixes
LocalZips(dir, normalized) ==
  LET all_zips == SortTexts({n \in DOMAIN dir.files : dir.files[n].final.exists})
  IN  IF normalized = EMPTY THEN all_zips
      ELSE SelectSeq(all_zips, LAMBDA p : MatchesPrefix(p, normalized))

\* run_prepare_socios 399-405: of the archives extracted (each holds one
\* CSV named after it), the partner ones, at most max_files of them
SociosCsvs(all_zips, max_files) ==
  Truncate(SelectSeq(all_zips,
                     LAMBDA p : StartsWith(LowerText(p), <<"s", "o", "c", "i", "o", "s">>)),
           max_files)

\* run_prepare_socios 376-411: what the call prepares from the month
\* directory, or how it ends when there is nothing to prepare
Selection(dir, normalized, max_files) ==
  LET all_zips == LocalZips(dir, normalized)
      socios_csvs == SociosCsvs(Truncate(all_zips, max_files), max_files)
  IN  IF all_zips = EMPTY \/ socios_csvs = EMPTY
      THEN [result |-> IF max_files = 0 THEN "(None, None)" ELSE "SystemExit",
            prepared |-> EMPTY]
      ELSE [result |-> "paths", prepared |-> socios_csvs]

\* ------------------------------------------------------------------------
\* State
\* ------------------------------------------------------------------------

VARIABLES
  excel,       \* the alumni spreadsheet: [exists, rows]
  socios,      \* SILVER_DIR/socios.parquet: [exists, has_date, rows]
  extract,     \* the latest extracted_all directory: [exists, inicio]
  egressos,    \* gold/egressos/egressos.parquet: [exists, labelled, right, rows]
  empresas,    \* gold/empresas/socios_empresas.parquet: [exists, rows]
  df,          \* the data frame run_pipeline holds
  pc,          \* where run_pipeline is
  err,         \* the exception that ended the last run, "" if none
  runs,        \* pipeline runs started
  label_call,  \* the last call of label_socios_fundadores since the run
               \* began: its outcome, its max_gap_days, the tables it read and
               \* the founders frame it computed
  arg,         \* the arguments of a function called on its own
  ret,         \* what that call returned
  cache,       \* CNPJ_BASE_DIR: per directory name, [exists, files], files
               \* giving per archive the bytes under its final name and
               \* under <name>.part, counted in chunks
  silver,      \* SILVER_DIR/socios_nomes.parquet and socios_meta.json
  prepare,     \* the call of run_prepare_socios: its arguments, where it is,
               \* what it has done and how it ended
  scheduler    \* the blocking scheduler of scheduler.main: [state, failed]

vars == <<excel, socios, extract, egressos, empresas, df, pc, err, runs, label_call,
          arg, ret, cache, silver, prepare, scheduler>>

\* the variables of run_prepare_socios, socios.parquet aside
registry == <<cache, silver, prepare>>

\* what no step of run_pipeline writes
inputs == <<excel, socios, extract, arg, ret, registry, scheduler>>

\* the variables of run_pipeline, socios.parquet aside
etl == <<excel, extract, egressos, empresas, df, pc, err, runs, label_call>>

\* CNPJ_BASE_DIR without any directory
NoCache == [d \in DirNames |-> [exists |-> FALSE, files |-> [n \in IndexZips |-> NoFiles]]]

NoSilver == [nomes |-> FALSE,
             meta |-> [exists |-> FALSE, source_month |-> NULL, max_files |-> 0]]

\* run_prepare_socios before any call, with the arguments of the calls
PrepareCall(month, max_files, download_prefix) ==
  [pc |-> "idle", month |-> month, max_files |-> max_files,
   download_prefix |-> download_prefix, target_month |-> NULL,
   online_error |-> FALSE, download_error |-> FALSE, files |-> EMPTY,
   downloads |-> 0, skipped |-> {}, prepared |-> EMPTY, result |-> "none", calls |-> 0]

NoPrepare == PrepareCall(NULL, 0, NULL)

\* scheduler.main has not been called
NoScheduler == [state |-> "off", failed |-> FALSE]

\* the variables of run_pipeline and of the files it reads and writes
pipeline == <<excel, socios, extract, egressos, empresas, df, pc, err, runs, label_call>>

Init ==
  /\ excel \in {[exists |-> FALSE, rows |-> EMPTY]}
         \cup {[exists |-> TRUE, rows |-> r] : r \in SheetsUpTo(PersonPool, MaxPersons)}
  /\ socios \in {[exists |-> FALSE, has_date |-> FALSE, rows |-> {}]}
         \cup {[exists |-> TRUE, has_date |-> h, rows |-> r] :
                 h \in BOOLEAN, r \in SubsetsUpTo(SocioPool, MaxSocios)}
  /\ extract \in {[exists |-> FALSE, inicio |-> <<>>]}
         \cup {[exists |-> TRUE, inicio |-> f] : f \in ExtractPool}
  /\ egressos = NoFile
  /\ empresas = [exists |-> FALSE, rows |-> EMPTY]
  /\ df = EMPTY
  /\ pc = "idle"
  /\ err = ""
  /\ runs = 0
  /\ label_call = NoCall
  /\ arg = NoArg
  /\ ret = NoReturn
  /\ cache = NoCache
  /\ silver = NoSilver
  /\ prepare = NoPrepare
  /\ scheduler = NoScheduler

\* ------------------------------------------------------------------------
\* run_pipeline, step by step
\* ------------------------------------------------------------------------

AtRest == pc \in {"idle", "done", "error"}

Finished == pc \in {"done", "error"}

Fail(e) == pc' = "error" /\ err' = e

\* run_pipeline 34 (read_egressos_excel): a run begins
ReadRows ==
  /\ runs' = runs + 1
  /\ IF excel.exists
     THEN df' = excel.rows /\ pc' = "ingested" /\ err' = ""
     ELSE df' = EMPTY /\ Fail("FileNotFoundError")
  /\ label_call' = NoCall

\* run_pipeline called from pipeline.main
ReadExcel ==
  /\ AtRest
  /\ runs < MaxRuns
  /\ ReadRows
  /\ UNCHANGED <<inputs, egressos, empresas>>

\* run_pipeline 35
BasicTransform ==
  /\ pc = "ingested"
  /\ df' = basic_transform(df)
  /\ pc' = "transformed"
  /\ UNCHANGED <<inputs, egressos, empresas, err, runs, label_call>>

\* run_pipeline 36
MarkFounders ==
  /\ pc = "transformed"
  /\ \E order \in Orderings(SociosRecords(socios)) :
        df' = mark_founders(df, socios, empresas, order)
  /\ pc' = "marked"
  /\ UNCHANGED <<inputs, egressos, empresas, err, runs, label_call>>

\* run_pipeline 38-85
Export ==
  /\ pc = "marked"
  /\ egressos' = ExportedFile(df)
  /\ pc' = "exported"
  /\ UNCHANGED <<inputs, empresas, df, err, runs, label_call>>

\* run_pipeline 86 (build_company_dataset)
BuildCompanyDataset ==
  /\ pc = "exported"
  /\ LET targets == _collect_cnpjs_from_parquet(egressos)
     IN  IF targets = {}
         THEN Fail("ValueError") /\ UNCHANGED empresas
         ELSE IF ~extract.exists
         THEN Fail("FileNotFoundError") /\ UNCHANGED empresas
         ELSE /\ empresas' = [exists |-> TRUE, rows |-> CompanyDataset(targets, extract)]
              /\ pc' = "built"
              /\ UNCHANGED err
  /\ UNCHANGED <<inputs, egressos, df, runs, label_call>>

\* the record of a call of label_socios_fundadores
CallRecord(result, max_gap_days) ==
  [status |-> result.status, error |-> result.error, max_gap_days |-> max_gap_days,
   rows |-> egressos.rows, empresas |-> empresas.rows, founders |-> result.founders]

\* a call of label_socios_fundadores: the file it leaves and its record
ApplyLabel(result, max_gap_days) ==
  /\ egressos' = result.file
  /\ label_call' = CallRecord(result, max_gap_days)

\* run_pipeline 87-94: the call with the default window ends the run
EndRun(result) ==
  /\ ApplyLabel(result, MAX_FOUNDER_GAP_DAYS)
  /\ IF result.status = "ok"
     THEN pc' = "done" /\ UNCHANGED err
     ELSE Fail(result.error)

\* run_pipeline 87-94
LabelFounders ==
  /\ pc = "built"
  /\ EndRun(label_socios_fundadores(egressos, empresas, MAX_FOUNDER_GAP_DAYS))
  /\ UNCHANGED <<inputs, empresas, df, runs>>

\* label_socios_fundadores called directly, between pipeline runs
Relabel ==
  /\ Finished
  /\ \E max_gap_days \in GapChoices :
       ApplyLabel(label_socios_fundadores(egressos, empresas, max_gap_days), max_gap_days)
  /\ UNCHANGED <<inputs, empresas, df, pc, err, runs>>

Next ==
  \/ ReadExcel
  \/ BasicTransform
  \/ MarkFounders
  \/ Export
  \/ BuildCompanyDataset
  \/ LabelFounders
  \/ Relabel

Spec == Init /\ [][Next]_vars

\* ------------------------------------------------------------------------
\* Functions called on their own
\* ------------------------------------------------------------------------

\* no pipeline run, no file on disk
Idle ==
  /\ excel = [exists |-> FALSE, rows |-> EMPTY]
  /\ socios = [exists |-> FALSE, has_date |-> FALSE, rows |-> {}]
  /\ extract = [exists |-> FALSE, inicio |-> <<>>]
  /\ egressos = NoFile
  /\ empresas = [exists |-> FALSE, rows |-> EMPTY]
  /\ df = EMPTY
  /\ pc = "idle"
  /\ err = ""
  /\ runs = 0
  /\ label_call = NoCall

InitFunctions ==
  /\ Idle
  /\ cache = NoCache
  /\ silver = NoSilver
  /\ prepare = NoPrepare
  /\ scheduler = NoScheduler
  /\ arg \in FunctionArgs
  /\ ret = NoReturn

\* the alumni table of one partner with one relation, as exported
OneRelationTable(cnpj, data_associacao) ==
  ExportedFile(<< [id_pessoa |-> <<"#", "p">>, nome |-> NAME_ANA, nome_norm |-> NAME_ANA,
                   socio_cpf |-> TRUE, socio_nome |-> TRUE, socio |-> TRUE,
                   cnpj_basico |-> <<cnpj>>, data_associacao |-> <<data_associacao>>] >>)

\* the company table of one company
OneCompanyTable(cnpj, data_inicio_atividade) ==
  [exists |-> TRUE,
   rows |-> << [cnpj_basico |-> cnpj, data_inicio_atividade |-> data_inicio_atividade] >>]

\* _parse_date on a column of two cells
CallParseDate ==
  /\ arg.kind = "dates"
  /\ ret.fn = "none"
  /\ ret' = [fn |-> "_parse_date",
             a |-> _parse_date(arg.a.text),
             b |-> _parse_date(arg.b.text)]
  /\ UNCHANGED <<pipeline, registry, scheduler, arg>>

\* the two founder rules on one relation: label_socios_fundadores with the
\* default window, and lines 260-294 of mark_founders
CallFounderRules ==
  /\ arg.kind = "dates"
  /\ ret.fn = "none"
  /\ ret' = [fn |-> "founders",
             label |-> label_socios_fundadores(OneRelationTable(CNPJ_1, arg.a.text),
                                               OneCompanyTable(CNPJ_1, arg.b.text),
                                               MAX_FOUNDER_GAP_DAYS),
             mark |-> FounderMatches(OneRelationTable(CNPJ_1, arg.a.text).rows,
                                     EmpresasBase(OneCompanyTable(CNPJ_1, arg.b.text)))]
  /\ UNCHANGED <<pipeline, registry, scheduler, arg>>

\* the fragment of a digit string, as taken on the alumni side and on the
\* partner side
CallFragments ==
  /\ arg.kind = "digits"
  /\ ret.fn = "none"
  /\ ret' = [fn |-> "fragment",
             person |-> _middle_cpf_fragment(arg.d),
             partner |-> _cpf_fragment_from_digits(arg.d)]
  /\ UNCHANGED <<pipeline, registry, scheduler, arg>>

\* a partner table with a record under the fragment of CPF_A and a record
\* under the empty fragment, both named ANA B LIMA
AnaSocios ==
  [exists |-> TRUE, has_date |-> TRUE,
   rows |-> {r \in SocioPool : r.nome = NAME_ANA /\ r.cnpj_basico = CNPJ_1}]

\* run_pipeline 34-36 on a sheet of one row: the row basic_transform
\* returns and the rows mark_founders can return
CallPersonRow ==
  /\ arg.kind = "person"
  /\ ret.fn = "none"
  /\ ret' = [fn |-> "person",
             transformed |-> basic_transform(<<[cpf |-> arg.cpf, nome |-> arg.nome]>>)[1],
             rows |-> {mark_founders(basic_transform(<<[cpf |-> arg.cpf, nome |-> arg.nome]>>),
                                     AnaSocios, empresas, order)[1]
                         : order \in Orderings(SociosRecords(AnaSocios))}]
  /\ UNCHANGED <<pipeline, registry, scheduler, arg>>

\* _load_socios_base on a partner table
CallLoadSociosBase ==
  /\ arg.kind = "socios"
  /\ ret.fn = "none"
  /\ \E order \in Orderings(SociosRecords(arg.file)) :
        ret' = [fn |-> "_load_socios_base", index |-> _load_socios_base(arg.file, order)]
  /\ UNCHANGED <<pipeline, registry, scheduler, arg>>

\* build_socios_tables on rows of the registry, and the partner index
\* _load_socios_base builds from the table
CallBuildSociosTables ==
  /\ arg.kind = "registry"
  /\ ret.fn = "none"
  /\ \E order \in Orderings(SociosRecords(build_socios_tables(arg.rows))) :
        ret' = [fn |-> "build_socios_tables",
                table |-> build_socios_tables(arg.rows),
                index |-> _load_socios_base(build_socios_tables(arg.rows), order)]
  /\ UNCHANGED <<pipeline, registry, scheduler, arg>>

\* socios_empresas.parquet with both companies, from an extract
BothCompanies(inicio) ==
  [exists |-> TRUE,
   rows |-> CompanyDataset({CNPJ_1, CNPJ_2}, [exists |-> TRUE, inicio |-> inicio])]

\* run_pipeline 38-94 on the frame mark_founders returned: the row at
\* position at, as mark_founders left it and as label_socios_fundadores
\* wrote it
DerivedOf(marked, empresasFile, at) ==
  [mark |-> marked[at],
   label |-> label_socios_fundadores(ExportedFile(marked), empresasFile,
                                     MAX_FOUNDER_GAP_DAYS).file.rows[at]]

\* run_pipeline 35-36 on a sheet and on one of its rows alone, against the
\* same partner index and company dataset
CallMarkOnTwoTables ==
  /\ arg.kind = "tables"
  /\ ret.fn = "none"
  /\ \E order \in Orderings(SociosRecords(arg.socios)) :
        ret' = [fn |-> "mark_founders",
                together |-> mark_founders(basic_transform(arg.sheet), arg.socios,
                                           BothCompanies(arg.inicio), order),
                alone |-> mark_founders(basic_transform(<<arg.sheet[arg.at]>>), arg.socios,
                                        BothCompanies(arg.inicio), order)]
  /\ UNCHANGED <<pipeline, registry, scheduler, arg>>

\* run_pipeline 38-94 on the two frames: the derived columns of the row
CallLabelOnTwoTables ==
  /\ arg.kind = "tables"
  /\ ret.fn = "mark_founders"
  /\ ret' = [fn |-> "tables",
             together |-> DerivedOf(ret.together, BothCompanies(arg.inicio), arg.at),
             alone |-> DerivedOf(ret.alone, BothCompanies(arg.inicio), 1)]
  /\ UNCHANGED <<pipeline, registry, scheduler, arg>>

\* mark_founders on a frame with columns missing
CallMarkFoundersOnColumns ==
  /\ arg.kind = "columns"
  /\ ret.fn = "none"
  /\ ret' = [fn |-> "columns", outcome |-> MarkFoundersColumns(arg.columns, arg.socios_none)]
  /\ UNCHANGED <<pipeline, registry, scheduler, arg>>

\* hash_identifier on one value under two salts
CallHashIdentifier ==
  /\ arg.kind = "hash"
  /\ ret.fn = "none"
  /\ ret' = [fn |-> "hash_identifier",
             a |-> hash_identifier(arg.value, arg.salt_a),
             b |-> hash_identifier(arg.value, arg.salt_b)]
  /\ UNCHANGED <<pipeline, registry, scheduler, arg>>

\* normalize_name on a name, and on its own result
CallNormalizeName ==
  /\ arg.kind = "name"
  /\ ret.fn = "none"
  /\ ret' = [fn |-> "normalize_name",
             once |-> normalize_name(arg.name),
             twice |-> normalize_name(normalize_name(arg.name))]
  /\ UNCHANGED <<pipeline, registry, scheduler, arg>>

\* the company parquet of a direct labelling call
CompanyFile(exists, inicio) ==
  IF exists THEN BothCompanies(inicio) ELSE [exists |-> FALSE, rows |-> EMPTY]

\* run_pipeline 34-85 on a one-row sheet: the alumni parquet handed to a
\* direct labelling call
CallExport ==
  /\ arg.kind = "label"
  /\ ret.fn = "none"
  /\ \E order \in Orderings(SociosRecords(arg.socios)) :
        ret' = [fn |-> "export_parquet",
                file |-> IF arg.egressos_exists
                         THEN ExportedFile(mark_founders(basic_transform(<<PersonPool[1]>>),
                                                         arg.socios,
                                                         BothCompanies(arg.inicio), order))
                         ELSE NoFile]
  /\ UNCHANGED <<pipeline, registry, scheduler, arg>>

\* label_socios_fundadores called on that parquet
CallLabelOnColumns ==
  /\ arg.kind = "label"
  /\ ret.fn = "export_parquet"
  /\ ret' = [fn |-> "label_socios_fundadores",
             before |-> ret.file,
             outcome |-> LabelOnColumns(ret.file, arg.columns,
                                        CompanyFile(arg.empresas_exists, arg.inicio),
                                        arg.max_gap_days)]
  /\ UNCHANGED <<pipeline, registry, scheduler, arg>>

NextFunctions ==
  \/ CallParseDate
  \/ CallFounderRules
  \/ CallFragments
  \/ CallPersonRow
  \/ CallLoadSociosBase
  \/ CallBuildSociosTables
  \/ CallMarkOnTwoTables
  \/ CallLabelOnTwoTables
  \/ CallMarkFoundersOnColumns
  \/ CallHashIdentifier
  \/ CallNormalizeName
  \/ CallExport
  \/ CallLabelOnColumns

SpecFunctions == InitFunctions /\ [][NextFunctions]_vars

\* ------------------------------------------------------------------------
\* run_prepare_socios, step by step
\* ------------------------------------------------------------------------

\* chunks in the response body of every archive
Chunks == 2

\* calls of run_prepare_socios in one behaviour
MaxCalls == 2

\* max_files of the calls
MaxFilesChoices == {-1, 0, 1, 2}

\* download_prefix of the calls
PrefixChoices == {NULL, <<"S", "o", "c", "i", "o", "s">>, <<"a", "l", "l">>}

\* an archive downloaded in full
Complete == [final |-> [exists |-> TRUE, size |-> Chunks], part |-> NoBytes]

\* an archive whose download broke off after one chunk
Interrupted == [final |-> NoBytes, part |-> [exists |-> TRUE, size |-> 1]]

\* a directory of CNPJ_BASE_DIR holding the given archives
DirWith(files) ==
  [exists |-> TRUE,
   files |-> [n \in IndexZips |-> IF n \in DOMAIN files THEN files[n] ELSE NoFiles]]

\* CNPJ_BASE_DIR as earlier calls can have left it
CachePool ==
  { NoCache,
    [NoCache EXCEPT ![MONTH_OLD] = DirWith(ZIP_SOCIOS0 :> Complete)],
    [NoCache EXCEPT ![MONTH_OLD] = DirWith(ZIP_CNAES :> Complete @@ ZIP_SOCIOS1 :> Complete),
                    ![DIR_OTHER] = DirWith(<<>>)],
    [NoCache EXCEPT ![MONTH_OLD] = DirWith(<<>>),
                    ![MONTH_NEW] = DirWith(ZIP_SOCIOS0 :> Interrupted)] }

\* the partner rows of the CSV an archive holds
ArchiveRows(name) ==
  IF name = ZIP_SOCIOS0 THEN {r \in RegistryPool : r.cnpj_basico = CNPJ_1}
  ELSE IF name = ZIP_SOCIOS1 THEN {r \in RegistryPool : r.cnpj_basico = CNPJ_2}
  ELSE {}

InitPrepare ==
  /\ Idle
  /\ arg = NoArg
  /\ ret = NoReturn
  /\ scheduler = NoScheduler
  /\ cache \in CachePool
  /\ silver = NoSilver
  /\ prepare \in {PrepareCall(m, n, p) : m \in {NULL, MONTH_OLD}, n \in MaxFilesChoices,
                                         p \in PrefixChoices}

\* month_dir.mkdir(parents=True, exist_ok=True)
MkDir(dirs, month) == [dirs EXCEPT ![month].exists = TRUE]

\* line 357 with the download attempted whatever the index answered
NextStep_AlwaysDownload(online_error) == "download_many"

\* run_prepare_socios 356-374: the download is attempted only when the
\* index was not found unavailable
NextStep(online_error) == IF online_error THEN "select" ELSE "download_many"

\* the prefixes of the call, normalised (lines 348-349)
NormalizedPrefix == _normalize_prefixes(EffectivePrefix(prepare.download_prefix))

\* the archive download_many is at, in the month directory
CurrentName == Head(prepare.files)

CurrentFile == cache[prepare.target_month].files[CurrentName]

\* the state of the call at entry
Entered ==
  [prepare EXCEPT !.calls = @ + 1, !.target_month = prepare.month,
                  !.online_error = FALSE, !.download_error = FALSE, !.files = EMPTY,
                  !.downloads = 0, !.skipped = {}, !.prepared = EMPTY, !.result = "none"]

\* run_prepare_socios 311-320 and, with a month given, 345-354
RunPrepareSocios ==
  /\ prepare.pc \in {"idle", "returned", "raised"}
  /\ prepare.calls < MaxCalls
  /\ IF prepare.month = NULL
     THEN prepare' = [Entered EXCEPT !.pc = "list_months"] /\ UNCHANGED cache
     ELSE /\ prepare' = [Entered EXCEPT !.pc = NextStep(FALSE)]
          /\ cache' = MkDir(cache, prepare.month)
  /\ UNCHANGED <<etl, socios, silver, arg, ret, scheduler>>

\* run_prepare_socios 321-354: the index answers with its months or fails,
\* and then the local month directories are listed
ListMonths ==
  /\ prepare.pc = "list_months"
  /\ \E online \in BOOLEAN :
       LET months == IF online THEN SortTexts(IndexMonths) ELSE EMPTY
           local_months == _list_local_months(cache)
       IN  IF months = EMPTY /\ local_months = EMPTY
           THEN /\ prepare' = [prepare EXCEPT !.online_error = TRUE, !.pc = "raised",
                                              !.result = "RuntimeError"]
                /\ UNCHANGED cache
           ELSE LET target == IF months # EMPTY THEN months[Len(months)]
                              ELSE local_months[Len(local_months)]
                IN  /\ prepare' = [prepare EXCEPT !.online_error = ~online,
                                                  !.target_month = target,
                                                  !.pc = NextStep(~online)]
                    /\ cache' = MkDir(cache, target)
  /\ UNCHANGED <<etl, socios, silver, arg, ret, scheduler>>

\* download_many 190-198: the index lists the archives of the month, or
\* the request fails and run_prepare_socios catches the error (366-370)
DownloadMany ==
  /\ prepare.pc = "download_many"
  /\ \E online \in BOOLEAN :
       prepare' = IF online
                  THEN [prepare EXCEPT !.pc = "files",
                          !.files = Truncate(list_files(IndexZips, NormalizedPrefix),
                                             prepare.max_files)]
                  ELSE [prepare EXCEPT !.pc = "select", !.download_error = TRUE]
  /\ UNCHANGED <<etl, socios, silver, arg, ret, scheduler, cache>>

\* download_many 203-208
SkipExisting ==
  /\ prepare.pc = "files"
  /\ prepare.files # EMPTY
  /\ AlreadyThere(CurrentFile)
  /\ prepare' = [prepare EXCEPT !.files = Tail(@), !.skipped = @ \cup {CurrentName}]
  /\ UNCHANGED <<etl, socios, silver, arg, ret, scheduler, cache>>

\* _stream_download 52-60: the request is answered and <name>.part is
\* opened, or the request fails
OpenStream ==
  /\ prepare.pc = "files"
  /\ prepare.files # EMPTY
  /\ ~AlreadyThere(CurrentFile)
  /\ \E online \in BOOLEAN :
       IF online
       THEN /\ cache' = [cache EXCEPT ![prepare.target_month].files[CurrentName] = OpenPart(@)]
            /\ prepare' = [prepare EXCEPT !.pc = "streaming", !.downloads = @ + 1]
       ELSE /\ prepare' = [prepare EXCEPT !.pc = "select", !.download_error = TRUE,
                                          !.downloads = @ + 1]
            /\ UNCHANGED cache
  /\ UNCHANGED <<etl, socios, silver, arg, ret, scheduler>>

\* _stream_download 61-64: one more chunk arrives
StreamChunk ==
  /\ prepare.pc = "streaming"
  /\ CurrentFile.part.size < Chunks
  /\ cache' = [cache EXCEPT ![prepare.target_month].files[CurrentName] = WriteChunk(@)]
  /\ UNCHANGED <<etl, socios, silver, arg, ret, scheduler, prepare>>

\* _stream_download 61: the stream breaks before the last chunk; the error
\* leaves download_many and is caught at run_prepare_socios 366-370
StreamFails ==
  /\ prepare.pc = "streaming"
  /\ CurrentFile.part.size < Chunks
  /\ prepare' = [prepare EXCEPT !.pc = "select", !.download_error = TRUE]
  /\ UNCHANGED <<etl, socios, silver, arg, ret, scheduler, cache>>

\* _stream_download 65 after the last chunk, and on to the next archive
RenamePart ==
  /\ prepare.pc = "streaming"
  /\ CurrentFile.part.size = Chunks
  /\ cache' = [cache EXCEPT ![prepare.target_month].files[CurrentName] = Replace(@)]
  /\ prepare' = [prepare EXCEPT !.pc = "files", !.files = Tail(@)]
  /\ UNCHANGED <<etl, socios, silver, arg, ret, scheduler>>

\* download_many 211
DownloadReturns ==
  /\ prepare.pc = "files"
  /\ prepare.files = EMPTY
  /\ prepare' = [prepare EXCEPT !.pc = "select"]
  /\ UNCHANGED <<etl, socios, silver, arg, ret, scheduler, cache>>

\* run_prepare_socios 413-435: the three files of SILVER_DIR
WriteTables(prepared) ==
  /\ socios' = build_socios_tables(UNION {ArchiveRows(prepared[i]) : i \in DOMAIN prepared})
  /\ silver' = [nomes |-> TRUE,
                meta |-> [exists |-> TRUE, source_month |-> prepare.target_month,
                          max_files |-> prepare.max_files]]

\* run_prepare_socios 376-435
PrepareTables ==
  /\ prepare.pc = "select"
  /\ LET selection == Selection(cache[prepare.target_month], NormalizedPrefix,
                                prepare.max_files)
     IN  /\ prepare' = [prepare EXCEPT !.result = selection.result,
                          !.prepared = selection.prepared,
                          !.pc = IF selection.result = "SystemExit" THEN "raised"
                                 ELSE "returned"]
         /\ IF selection.result = "paths" THEN WriteTables(selection.prepared)
            ELSE UNCHANGED <<socios, silver>>
  /\ UNCHANGED <<etl, arg, ret, scheduler, cache>>

NextPrepare ==
  \/ RunPrepareSocios
  \/ ListMonths
  \/ DownloadMany
  \/ SkipExisting
  \/ OpenStream
  \/ StreamChunk
  \/ StreamFails
  \/ RenamePart
  \/ DownloadReturns
  \/ PrepareTables

SpecPrepare == InitPrepare /\ [][NextPrepare]_vars

\* ------------------------------------------------------------------------
\* etl/scheduler.py
\* ------------------------------------------------------------------------

\* scheduler.main is called with EGRESSO_EXCEL_FILE set, on any spreadsheet,
\* partner index and registry extract
InitScheduler ==
  /\ excel \in {[exists |-> FALSE, rows |-> EMPTY]}
         \cup {[exists |-> TRUE, rows |-> r] : r \in SheetsUpTo(PersonPool, 1)}
  /\ socios \in {[exists |-> FALSE, has_date |-> FALSE, rows |-> {}]}
         \cup {[exists |-> TRUE, has_date |-> TRUE, rows |-> r] : r \in SubsetsUpTo(SocioPool, 1)}
  /\ extract \in {[exists |-> FALSE, inicio |-> <<>>]}
         \cup {[exists |-> TRUE, inicio |-> f] : f \in ExtractPool}
  /\ egressos = NoFile
  /\ empresas = [exists |-> FALSE, rows |-> EMPTY]
  /\ df = EMPTY
  /\ pc = "idle"
  /\ err = ""
  /\ runs = 0
  /\ label_call = NoCall
  /\ arg = NoArg
  /\ ret = NoReturn
  /\ cache = NoCache
  /\ silver = NoSilver
  /\ prepare = NoPrepare
  /\ scheduler = NoScheduler

\* lines 21-26 without the except clause: the error leaves the job and
\* ends the scheduler
job_NoExcept(error) == IF error = "" THEN "waiting" ELSE "stopped"

\* scheduler.job 20-26: the state of the scheduler once the job is over;
\* an exception of run_pipeline is caught and logged, so the job returns
\* normally whatever the run ended with
job(error) == "waiting"

\* scheduler.main 29-37: the job is registered and the scheduler started
StartScheduler ==
  /\ scheduler.state = "off"
  /\ scheduler' = [scheduler EXCEPT !.state = "waiting"]
  /\ UNCHANGED <<pipeline, registry, arg, ret>>

\* the cron trigger fires: job calls run_pipeline (scheduler.job 21-23,
\* run_pipeline 28-34)
CronTrigger ==
  /\ scheduler.state = "waiting"
  /\ runs < MaxRuns
  /\ ReadRows
  /\ scheduler' = [scheduler EXCEPT !.state = "job"]
  /\ UNCHANGED <<excel, socios, extract, egressos, empresas, registry, arg, ret>>

\* scheduler.job 24-26: the run is over, with or without an error
JobReturns ==
  /\ scheduler.state = "job"
  /\ Finished
  /\ scheduler' = [state |-> job(IF pc = "error" THEN err ELSE ""),
                   failed |-> scheduler.failed \/ pc = "error"]
  /\ UNCHANGED <<pipeline, registry, arg, ret>>

\* scheduler.main 38-39: Ctrl+C between two jobs
Interrupt ==
  /\ scheduler.state = "waiting"
  /\ scheduler' = [scheduler EXCEPT !.state = "stopped"]
  /\ UNCHANGED <<pipeline, registry, arg, ret>>

\* the steps of the run the job has begun
JobStep ==
  \/ BasicTransform
  \/ MarkFounders
  \/ Export
  \/ BuildCompanyDataset
  \/ LabelFounders

NextScheduler ==
  \/ StartScheduler
  \/ CronTrigger
  \/ BasicTransform
  \/ MarkFounders
  \/ Export
  \/ BuildCompanyDataset
  \/ LabelFounders
  \/ JobReturns
  \/ Interrupt

SpecScheduler == InitScheduler /\ [][NextScheduler]_vars

\* the positions of run_pipeline between its first and its last step; in
\* each of them exactly one step of JobStep is enabled
InRun == pc \in {"ingested", "transformed", "marked", "exported", "built"}

\* the cron times keep coming while the scheduler runs, and a job that has
\* begun runs to its end: weak fairness of CronTrigger, JobReturns and
\* JobStep, the last one written out with InRun for ENABLED <<JobStep>>_vars
SpecSchedulerLive ==
  /\ SpecScheduler
  /\ WF_vars(CronTrigger)
  /\ WF_vars(JobReturns)
  /\ ([]<>(~InRun) \/ []<><<JobStep>>_vars)

\* ------------------------------------------------------------------------
\* Properties
\* ------------------------------------------------------------------------

\* mark_founders has just returned: df holds its table
Marked == pc = "marked"

\* the fragment of the i-th alumni row, from its spreadsheet tax id
PersonFragment(i) ==
  MapElements(_middle_cpf_fragment, MapElements(_clean_cpf, excel.rows[i].cpf))

\* the partner records filed under the fragment of the i-th alumni row
CandidatesUnder(fragment) ==
  IF NonEmpty(fragment) THEN {r \in socios.rows : r.cpf_fragment = fragment} ELSE {}

\* the partner records filed under the fragment of the i-th alumni row
FragmentCandidates(i) == CandidatesUnder(PersonFragment(i))

\* the similarity score of the i-th alumni row against a partner record
NameScore(i, r) ==
  IF df[i].nome_norm = NULL \/ r.nome = NULL THEN 0
  ELSE token_set_ratio(df[i].nome_norm, normalize_name(r.nome))

\* no partner index: file missing, or no record with a non-empty fragment
NoPartnerIndex ==
  \/ ~socios.exists
  \/ \A r \in socios.rows : r.cpf_fragment = NULL \/ r.cpf_fragment = EMPTY

\* the partner relations the last call of label_socios_fundadores examined
CallRelations ==
  {x \in Range(Explode(label_call.rows)) : IsFounderCandidate(x)}

\* the last call classified the relation as founding
FoundingInCall(rel) ==
  \E f \in label_call.founders :
     /\ f.id_pessoa = rel.id_pessoa
     /\ \E k \in DOMAIN f.fundador_relacoes :
          /\ f.fundador_relacoes[k].cnpj_basico = rel.cnpj_basico
          /\ f.fundador_relacoes[k].data_associacao = _parse_date(rel.data_associacao)

\* the registration dates on file for a company in the last call, parsed
RegistrationDates(cnpj) ==
  { _parse_date(label_call.empresas[n].data_inicio_atividade)
    : n \in {k \in DOMAIN label_call.empresas : label_call.empresas[k].cnpj_basico = cnpj} }
  \ {NULLDATE}

\* the day gaps between a parsed association date and a set of dates
GapsOf(assoc, dates) ==
  IF assoc = NULLDATE THEN {} ELSE {Abs(assoc - d) : d \in dates}

\* the day gaps between the association date of a relation and the
\* registration dates on file for its company (empty: a date is missing)
Gaps(rel) == GapsOf(_parse_date(rel.data_associacao), RegistrationDates(rel.cnpj_basico))

\* C1: in every row returned by mark_founders the partner flag is the
\* conjunction of the fragment signal and the name signal; a row whose
\* fragment finds candidates none of which reaches the name threshold has
\* socio_cpf true, socio_nome false and socio false (stated as: a row
\* without those three values has no candidate, or a candidate that reaches
\* the threshold)
C1_PartnerFlagIsConjunction ==
  Marked =>
    \A i \in DOMAIN df :
       /\ df[i].socio = (df[i].socio_cpf /\ df[i].socio_nome)
       /\ \/ (df[i].socio_cpf /\ ~df[i].socio_nome /\ ~df[i].socio)
          \/ FragmentCandidates(i) = {}
          \/ \E r \in FragmentCandidates(i) : NameScore(i, r) >= 90

C1_Witness ==
  /\ Marked
  /\ \E i \in DOMAIN df : df[i].socio
  /\ \E i \in DOMAIN df :
        /\ df[i].socio_cpf /\ ~df[i].socio
        /\ FragmentCandidates(i) # {}
        /\ \A r \in FragmentCandidates(i) : NameScore(i, r) < 90

\* C2: socio_nome of a row is true exactly when some candidate joined
\* through the row's fragment scores 90 or more against the row's
\* normalised name
C2_NameFlagIffCandidateScores90 ==
  Marked =>
    \A i \in DOMAIN df :
       df[i].socio_nome <=> (\E r \in FragmentCandidates(i) : NameScore(i, r) >= 90)

\* C3: a call of label_socios_fundadores classifies a partner relation as
\* founding exactly when its association date and a registration date of
\* its company both parse and lie at most max_gap_days apart (inclusive)
C3_FoundingIffWithinWindow ==
  label_call.status = "ok" =>
    \A rel \in CallRelations :
       FoundingInCall(rel) <=> (\E g \in Gaps(rel) : g <= label_call.max_gap_days)

C3_Witness ==
  /\ label_call.status = "ok"
  /\ label_call.max_gap_days = 7
  /\ \E rel \in CallRelations : Gaps(rel) = {7} /\ FoundingInCall(rel)
  /\ \E rel \in CallRelations : Gaps(rel) = {8} /\ ~FoundingInCall(rel)

\* C4: a row is labelled founder only if the same row is a partner, in the
\* table returned by mark_founders and in the table written by
\* label_socios_fundadores
C4_FounderOnlyIfPartner ==
  /\ Marked => \A i \in DOMAIN df : df[i].fundador => df[i].socio
  /\ label_call.status = "ok" =>
       \A i \in DOMAIN egressos.rows :
          egressos.rows[i].socio_fundador => egressos.rows[i].socio

\* C5: mark_founders returns one row per input row, in order, and
\* label_socios_fundadores writes one row per row it read
C5_RowCountPreserved ==
  /\ Marked =>
       /\ Len(df) = Len(excel.rows)
       /\ \A i \in DOMAIN df : df[i].nome = excel.rows[i].nome
  /\ label_call.status = "ok" =>
       /\ Len(egressos.rows) = Len(label_call.rows)
       /\ \A i \in DOMAIN egressos.rows :
            /\ egressos.rows[i].id_pessoa = label_call.rows[i].id_pessoa
            /\ egressos.rows[i].nome = label_call.rows[i].nome

C5_Witness ==
  /\ pc = "done"
  /\ Len(df) = 2
  /\ df[1].id_pessoa = df[2].id_pessoa
  /\ df[1].socio_cpf /\ df[2].socio_cpf
  /\ label_call.founders # {}
  /\ Len(egressos.rows) = 2

\* C6: without a partner index (file missing, or no record with a
\* non-empty fragment) mark_founders returns every row with the four flags
\* false and empty company and date lists
C6_NoPartnerIndexAllFalse ==
  (Marked /\ NoPartnerIndex) =>
    \A i \in DOMAIN df :
       /\ ~df[i].socio_cpf /\ ~df[i].socio_nome /\ ~df[i].socio /\ ~df[i].fundador
       /\ df[i].cnpj_basico = EMPTY /\ df[i].data_associacao = EMPTY

C6_Witness ==
  /\ pc = "marked"
  /\ socios.exists /\ socios.rows # {} /\ NoPartnerIndex
  /\ \E i \in DOMAIN df : PersonFragment(i) = EMPTY /\ ~df[i].socio_cpf
  /\ \E i \in DOMAIN df : PersonFragment(i) # EMPTY /\ ~df[i].socio_cpf

\* C7: with a readable spreadsheet and no partner index the pipeline run
\* does not end with an error
C7_MissingPartnerIndexNeverAborts ==
  (excel.exists /\ NoPartnerIndex) => pc # "error"

\* C8: with the company registry missing or empty a call of
\* label_socios_fundadores raises nothing and labels every row with
\* socio_fundador false and empty fundador_relacoes and cnpj_fundador
C8_MissingRegistryIsNonFatal ==
  ( /\ label_call.status # "none"
    /\ label_call.max_gap_days >= 0
    /\ egressos.exists
    /\ (~empresas.exists \/ empresas.rows = EMPTY) )
  => /\ label_call.status = "ok"
     /\ \A i \in DOMAIN egressos.rows :
          /\ ~egressos.rows[i].socio_fundador
          /\ egressos.rows[i].fundador_relacoes = EMPTY
          /\ egressos.rows[i].cnpj_fundador = EMPTY

\* C9: on the same data the fundador flag of mark_founders and the
\* socio_fundador flag of label_socios_fundadores (default window) agree
\* on every row
C9_OneFounderWindow ==
  ( /\ runs >= 2
    /\ pc = "done"
    /\ label_call.status = "ok"
    /\ label_call.max_gap_days = MAX_FOUNDER_GAP_DAYS
    /\ ~egressos.right )
  => \A i \in DOMAIN df : df[i].fundador = egressos.rows[i].socio_fundador

\* C10: socio_cpf of a row is true exactly when the row's fragment is
\* non-empty and the partner file has a record under that fragment; a row
\* with an empty fragment joins no group, whatever the file contains
C10_FragmentFlagIffIndexHasCandidate ==
  Marked =>
    \A i \in DOMAIN df :
       /\ df[i].socio_cpf <=>
            (NonEmpty(PersonFragment(i)) /\ \E r \in socios.rows : r.cpf_fragment = PersonFragment(i))
       /\ ~NonEmpty(PersonFragment(i)) => (~df[i].socio_cpf /\ df[i].cnpj_basico = EMPTY)

C10_Witness ==
  /\ pc = "marked"
  /\ \E r \in socios.rows : r.cpf_fragment = EMPTY
  /\ \E i \in DOMAIN df : PersonFragment(i) = EMPTY /\ ~df[i].socio_cpf
  /\ \E i \in DOMAIN df : df[i].socio_cpf

\* the distinct (normalised name, company id, association date) triples on
\* file under the fragment of the i-th alumni row
CandidateTriples(i) ==
  { [nome_norm |-> MapElements(normalize_name, r.nome),
     cnpj_basico |-> r.cnpj_basico,
     data_associacao |-> IF socios.has_date THEN r.data_entrada_sociedade ELSE NULL]
    : r \in FragmentCandidates(i) }

\* the candidate triple clears the name threshold against the i-th row
Confirmed(i, t) ==
  /\ df[i].nome_norm # NULL
  /\ t.nome_norm # NULL
  /\ token_set_ratio(df[i].nome_norm, t.nome_norm) >= 90

\* how often c occurs in a list
Count(list, c) == Cardinality({k \in DOMAIN list : list[k] = c})

\* the confirmed candidates of the i-th row that belong to company c
ConfirmedIn(triples, i, c) == {t \in triples : t.cnpj_basico = c /\ Confirmed(i, t)}

\* the company ids that occur in a list or in a set of candidate triples
CompanyIds(list, triples) ==
  {c \in Range(list) \cup {t.cnpj_basico : t \in triples} : NonEmpty(c)}

\* C11: the confirmed company-id list of a row holds one entry per
\* confirmed candidate under the row's fragment (all k companies of a person
\* matched in k companies) and no entry that no confirmed candidate accounts
\* for
C11_AllConfirmedCompaniesListed ==
  Marked =>
    \A i \in DOMAIN df :
       /\ \A k \in DOMAIN df[i].cnpj_basico : NonEmpty(df[i].cnpj_basico[k])
       /\ \A c \in CompanyIds(df[i].cnpj_basico, CandidateTriples(i)) :
            Count(df[i].cnpj_basico, c) = Cardinality(ConfirmedIn(CandidateTriples(i), i, c))

C11_Witness ==
  /\ Marked
  /\ \E i \in DOMAIN df :
        /\ Len(df[i].cnpj_basico) = 2
        /\ df[i].cnpj_basico[1] # df[i].cnpj_basico[2]
        /\ Cardinality(CandidateTriples(i)) = 2
  /\ \E i \in DOMAIN df :
        /\ df[i].socio_cpf
        /\ df[i].cnpj_basico = EMPTY

\* the three founder columns of a written row agree: the flag is a boolean,
\* fundador_relacoes a list of relation structs and cnpj_fundador the list
\* of their company ids (so none of the three is null)
FounderColumnsAgree(row) ==
  /\ row.socio_fundador \in BOOLEAN
  /\ row.socio_fundador = (Len(row.fundador_relacoes) > 0)
  /\ row.cnpj_fundador =
       [k \in DOMAIN row.fundador_relacoes |-> row.fundador_relacoes[k].cnpj_basico]

\* C12: in the table written by label_socios_fundadores every row has
\* socio_fundador true exactly when fundador_relacoes is non-empty,
\* cnpj_fundador the company ids of the entries of fundador_relacoes, and
\* none of the three columns null
C12_FounderColumnsAgree ==
  label_call.status = "ok" =>
    \A i \in DOMAIN egressos.rows : FounderColumnsAgree(egressos.rows[i])

C12_Witness ==
  /\ label_call.status = "ok"
  /\ \E i \in DOMAIN egressos.rows :
        /\ egressos.rows[i].socio_fundador
        /\ egressos.rows[i].cnpj_fundador # EMPTY
  /\ \E i \in DOMAIN egressos.rows :
        /\ ~egressos.rows[i].socio_fundador
        /\ egressos.rows[i].fundador_relacoes = EMPTY

\* the date a cell stands for: the calendar date of its triple when it is
\* written in one of the two forms and the triple is a date, null otherwise
ExpectedDate(cell) ==
  IF cell.form = "other" THEN NULLDATE
  ELSE DateOrdinal(cell.fields[1], cell.fields[2], cell.fields[3])

SixFrom(d, skip) == [j \in 1..6 |-> d[skip + j]]

\* the fragment rule: the digits at 0-based offsets 3 to 8 of a string of 11
\* or more digits, the last six of a string of 6 to 10, otherwise nothing
FragmentRule(d) ==
  IF d = NULL THEN EMPTY
  ELSE IF Len(d) >= 11 THEN SixFrom(d, 3)
  ELSE IF Len(d) >= 6 THEN SixFrom(d, Len(d) - 6)
  ELSE EMPTY

C15_FragmentsDerivedTheSameWay ==
  ret.fn = "fragment" => ret.person = ret.partner

\* C16: on null, on the empty string and on every digit string both
\* extractors return a string of length 0 or 6
C16_FragmentLengthZeroOrSix ==
  ret.fn = "fragment" =>
    /\ Len(ret.person) \in {0, 6}
    /\ Len(ret.partner) \in {0, 6}

C16_Witness ==
  /\ ret.fn = "fragment"
  /\ Len(arg.d) = 7
  /\ Len(ret.person) = 0
  /\ Len(ret.partner) = 6

\* the source tax id validates: 11 digits once the other characters are
\* stripped, and both check digits right
TaxIdValidates(cpf) ==
  /\ cpf # NULL
  /\ Len(SelectDigits(cpf)) = 11
  /\ CpfValidate(SelectDigits(cpf))

\* C17: a row whose source tax id fails validation has an empty cpf_limpo,
\* an empty id_pessoa and socio_cpf = socio = false; a row whose tax id
\* validates has a non-empty id_pessoa
C17_InvalidTaxIdIsEmptyAndUnjoined ==
  ret.fn = "person" =>
    \A row \in ret.rows :
      IF TaxIdValidates(arg.cpf)
      THEN row.id_pessoa \notin {NULL, EMPTY}
      ELSE /\ ret.transformed.cpf_limpo = EMPTY
           /\ row.id_pessoa = EMPTY
           /\ ~row.socio_cpf
           /\ ~row.socio

\* the (normalized name, company id, association date) triples of the
\* records of a partner table that carry the fragment
TriplesUnder(file, fragment) ==
  { [nome_norm |-> MapElements(normalize_name, r.nome),
     cnpj_basico |-> r.cnpj_basico,
     data_associacao |-> IF file.has_date THEN r.data_entrada_sociedade ELSE NULL]
    : r \in {x \in file.rows : x.cpf_fragment = fragment} }

\* the non-empty fragments of a partner table
FragmentsOf(file) ==
  {r.cpf_fragment : r \in {x \in file.rows : x.cpf_fragment \notin {NULL, EMPTY}}}

\* no entry of a list occurs twice
NoRepeat(list) == \A i, j \in DOMAIN list : list[i] = list[j] => i = j

\* C18: the partner index has no group for the empty or null fragment, one
\* group per distinct non-empty fragment, and each group holds exactly the
\* distinct triples of the records of its fragment, each once
C18_IndexGroupsExactlyTheTriples ==
  ret.fn = "_load_socios_base" =>
    /\ \A k \in DOMAIN ret.index.grouped :
          /\ ret.index.grouped[k].cpf_fragment \notin {NULL, EMPTY}
          /\ Range(ret.index.grouped[k].socio_pairs)
               = TriplesUnder(arg.file, ret.index.grouped[k].cpf_fragment)
          /\ NoRepeat(ret.index.grouped[k].socio_pairs)
    /\ NoRepeat([k \in DOMAIN ret.index.grouped |-> ret.index.grouped[k].cpf_fragment])
    /\ arg.file.exists =>
         {ret.index.grouped[k].cpf_fragment : k \in DOMAIN ret.index.grouped}
           = FragmentsOf(arg.file)

\* two records of one fragment, spelt differently, that fall into one triple
C18_Witness ==
  /\ ret.fn = "_load_socios_base"
  /\ Cardinality(ValidSocios(arg.file)) = 2
  /\ Len(ret.index.grouped) = 1
  /\ Len(ret.index.grouped[1].socio_pairs) = 1

\* the registry row is a natural person whose document has six digits or
\* more: build_socios_tables emits a record for it
Emitted(r) ==
  /\ r.identificador_socio = <<"2">>
  /\ r.cpf_cnpj_socio # NULL
  /\ Len(SelectDigits(r.cpf_cnpj_socio)) >= 6

\* the pairs the index holds for the company and name of a registry row
PairsOf(index, r) ==
  {p \in UNION {Range(index.grouped[k].socio_pairs) : k \in DOMAIN index.grouped} :
     /\ p.cnpj_basico = r.cnpj_basico
     /\ p.nome_norm = normalize_name(r.nome_socio)}

\* C19: the partner-by-fragment table carries the entry date of every
\* emitted registry row that has one, so the partner index built from the
\* table holds a non-null association date for that record
C19_EmittedRecordsCarryTheDate ==
  ret.fn = "build_socios_tables" =>
    \A r \in arg.rows :
      Emitted(r) /\ NonEmpty(r.data_entrada_sociedade) =>
        /\ ret.table.has_date
        /\ \E p \in PairsOf(ret.index, r) : p.data_associacao = r.data_entrada_sociedade

\* C20: a row has the same derived columns (partner flags, company and date
\* lists, per-company association dates, founder flag, founding relations)
\* in the output of a table that holds it with other rows and in the output
\* of the table that holds it alone
C20_RowsAreIndependent ==
  ret.fn = "tables" => ret.together = ret.alone

\* C21: when the frame given to mark_founders lacks one of its required
\* columns, the stage ends with an error instead of going on with a
\* placeholder column
C21_MissingRequiredColumnIsFatal ==
  ret.fn = "columns" /\ REQUIRED_COLS \ arg.columns # {} =>
    ret.outcome.status = "error"

\* a value that is null, empty or made of whitespace only
Blank(value) == value = NULL \/ \A i \in DOMAIN value : value[i] \in SpaceChars

\* a salt of at most one block that does not end in a zero byte
PlainSalt(salt) ==
  /\ salt # EMPTY
  /\ Len(salt) <= HMAC_BLOCK_SIZE
  /\ salt[Len(salt)] # NUL

C23_NormalizeNameIsIdempotent ==
  ret.fn = "normalize_name" =>
    /\ ret.twice = ret.once
    /\ ret.once # EMPTY =>
         ret.once[1] \notin SpaceChars /\ ret.once[Len(ret.once)] \notin SpaceChars
    /\ \A i \in 1..(Len(ret.once) - 1) :
         ~(ret.once[i] \in SpaceChars /\ ret.once[i + 1] \in SpaceChars)
    /\ \A i \in DOMAIN ret.once :
         ret.once[i] \notin Range(LowerChars) \cup {"ã", "é", "ç", "ß"}
    /\ arg.name = NULL => ret.once = EMPTY

\* a name with blanks at both ends and in a row inside, an accent and a
\* lower-case letter
C23_Witness ==
  /\ ret.fn = "normalize_name"
  /\ arg.name = <<" ", "ã", "\t", " ">>
  /\ ret.once = <<"A">>
  /\ ret.twice = <<"A">>

\* the partner records a row's entry j can come from: same company id, same
\* raw date, a name that confirms the row's name
CandidatesOf(row, j) ==
  { r \in SociosRecords(socios) :
      /\ r.cnpj_basico = row.cnpj_basico[j]
      /\ r.data_associacao = row.data_associacao[j]
      /\ r.nome_norm # NULL
      /\ _has_similar_name(row.nome_norm, r.nome_norm) }

\* C25: in every row mark_founders returns, cnpj_basico, data_associacao and
\* datas_associacao have the same length, and entry j of each is the
\* company id, the raw date and the parsed date (or null) of one confirmed
\* candidate
C25_ListColumnsAreParallel ==
  Marked =>
    \A i \in DOMAIN df :
      /\ Len(df[i].cnpj_basico) = Len(df[i].data_associacao)
      /\ Len(df[i].cnpj_basico) = Len(df[i].datas_associacao)
      /\ \A j \in DOMAIN df[i].cnpj_basico :
            /\ NonEmpty(df[i].cnpj_basico[j])
            /\ df[i].datas_associacao[j] = _parse_date(df[i].data_associacao[j])
            /\ CandidatesOf(df[i], j) # {}

\* a row with a confirmed candidate whose date is null, next to a partner
\* record without a company id
C25_Witness ==
  /\ Marked
  /\ \E r \in socios.rows : r.cnpj_basico = EMPTY /\ r.cpf_fragment # EMPTY
  /\ \E i \in DOMAIN df :
        /\ Len(df[i].cnpj_basico) >= 1
        /\ df[i].datas_associacao[1] = NULLDATE

\* the three labelling columns of a row
LabelColumns(row) == <<row.socio_fundador, row.cnpj_fundador, row.fundador_relacoes>>

\* the alumni parquet before any labelling: the same rows, no labelling
\* column, no suffixed column
Unlabelled(file) == [file EXCEPT !.labelled = FALSE, !.right = FALSE]

\* C26: a call of label_socios_fundadores with a window w >= 0 on a parquet
\* that is already labelled succeeds and leaves the three labelling columns
\* as one call with w on the unlabelled parquet leaves them, with no extra
\* column
C26_RelabelIsIdempotent ==
  [][\A w \in GapChoices :
       /\ Relabel
       /\ egressos.exists /\ egressos.labelled /\ empresas.exists
       /\ w >= 0
       /\ label_call'.max_gap_days = w
       /\ label_call'.status # "none"
       => /\ label_call'.status = "ok"
          /\ ~egressos'.right
          /\ egressos'.labelled
          /\ \A i \in DOMAIN egressos.rows :
                LabelColumns(egressos'.rows[i])
                  = LabelColumns(label_socios_fundadores(Unlabelled(egressos), empresas, w).file.rows[i])
    ]_vars

\* C27: a call of label_socios_fundadores that ends with an error leaves the
\* alumni parquet as it was, and each of the four conditions (negative
\* window, missing alumni parquet, missing company parquet, missing
\* required column) ends the call with an error
C27_ErrorLeavesParquetUntouched ==
  ret.fn = "label_socios_fundadores" =>
    /\ ret.outcome.status = "error" => ret.outcome.file = ret.before
    /\ ret.outcome.status = "error"
         <=> \/ arg.max_gap_days < 0
             \/ ~arg.egressos_exists
             \/ ~arg.empresas_exists
             \/ LABEL_REQUIRED_COLS \ arg.columns # {}
    /\ ret.outcome.status = "ok" => ret.outcome.file.labelled

\* an existing parquet with a partner row and without the socio column:
\* the call raises and the parquet is unlabelled as before
C27_Witness ==
  /\ ret.fn = "label_socios_fundadores"
  /\ arg.max_gap_days = 8 /\ arg.egressos_exists /\ arg.empresas_exists
  /\ "socio" \notin arg.columns
  /\ ret.outcome.status = "error"
  /\ ret.outcome.error = "ValueError"
  /\ ret.before.exists /\ ~ret.before.labelled
  /\ \E i \in DOMAIN ret.before.rows : ret.before.rows[i].socio
  /\ ret.outcome.file = ret.before

\* a call of run_prepare_socios has ended
PrepareEnded == prepare.pc \in {"returned", "raised"}

\* an archive of partners
IsSociosZip(name) == StartsWith(LowerText(name), <<"s", "o", "c", "i", "o", "s">>)

\* C24: a call with max_files = n >= 1 whose requests were all answered, on
\* a month with a partner archive among others, prepares between 1 and n
\* partner archives and writes socios.parquet; only max_files = 0 gives
\* (None, None)
C24_MaxFilesLimitsSociosArchives ==
  PrepareEnded /\ ~prepare.online_error /\ ~prepare.download_error =>
    /\ prepare.max_files >= 1 =>
         /\ prepare.result = "paths"
         /\ Len(prepare.prepared) \in 1..prepare.max_files
         /\ \A i \in DOMAIN prepare.prepared : IsSociosZip(prepare.prepared[i])
         /\ socios.exists
    /\ prepare.result = "(None, None)" <=> prepare.max_files = 0

\* the local AAAA-MM directories
LocalMonths == {m \in DirNames : cache[m].exists /\ IsMonthName(m)}

\* C28: in a call without a month whose index query failed, no download is
\* attempted; with a local month directory the most recent one is the
\* target, and without any the call ends with an error and none of the
\* three output files written
C28_IndexFailureFallsBackToCache ==
  prepare.month = NULL /\ prepare.online_error =>
    /\ prepare.downloads = 0
    /\ prepare.files = EMPTY
    /\ prepare.pc \in {"select", "returned", "raised"}
    /\ prepare.result = "RuntimeError" <=> LocalMonths = {}
    /\ LocalMonths # {} =>
         /\ prepare.target_month \in LocalMonths
         /\ \A m \in LocalMonths : ~TextLess(prepare.target_month, m)
    /\ LocalMonths = {} =>
         /\ prepare.pc = "raised"
         /\ ~socios.exists /\ ~silver.nomes /\ ~silver.meta.exists

\* the index is down, the cache holds a month and a directory that is not
\* a month: the call prepares the archives of that month without a download
C28_Witness ==
  /\ prepare.month = NULL /\ prepare.online_error
  /\ cache[DIR_OTHER].exists
  /\ prepare.target_month = MONTH_OLD
  /\ prepare.result = "paths"
  /\ prepare.downloads = 0
  /\ socios.exists

\* the archives download_many goes through in the current call
Wanted == Truncate(list_files(IndexZips, NormalizedPrefix), prepare.max_files)

\* C29: a file under its final name holds the whole response body, in
\* every directory and at every step; download_many skips only such files,
\* and when it returns every archive it went through is there in full,
\* whatever an earlier call left behind
C29_FinalNameHoldsCompleteBody ==
  /\ \A d \in DirNames : \A n \in IndexZips :
       cache[d].files[n].final.exists => cache[d].files[n].final.size = Chunks
  /\ \A n \in prepare.skipped :
       cache[prepare.target_month].files[n].final = [exists |-> TRUE, size |-> Chunks]
  /\ prepare.pc = "select" /\ ~prepare.online_error /\ ~prepare.download_error =>
       \A i \in DOMAIN Wanted :
         cache[prepare.target_month].files[Wanted[i]].final = [exists |-> TRUE, size |-> Chunks]

\* the second call on a month where the first one brought one partner
\* archive and broke off: the complete archive is skipped, the other one
\* downloaded again, and both are there in full
C29_Witness ==
  /\ prepare.calls = 2
  /\ prepare.pc = "select" /\ ~prepare.download_error
  /\ prepare.target_month = MONTH_NEW
  /\ prepare.skipped = {ZIP_SOCIOS0}
  /\ prepare.downloads = 1
  /\ cache[MONTH_NEW].files[ZIP_SOCIOS1] = Complete
  /\ cache[MONTH_NEW].files[ZIP_CNAES] = NoFiles

\* C30: an error of run_pipeline leaves the scheduler running: the job
\* returns, the scheduler goes back to waiting, only Ctrl+C stops it, and
\* unless it is stopped the next cron trigger starts a new run
C30_FailedRunKeepsSchedulerRunning ==
  /\ [][scheduler.state = "job" /\ scheduler' # scheduler
          => scheduler'.state = "waiting" /\ Finished]_vars
  /\ [][scheduler'.state = "stopped" /\ scheduler.state # "stopped"
          => scheduler.state = "waiting"]_vars
  /\ \A n \in 1..(MaxRuns - 1) :
       (scheduler.state = "job" /\ pc = "error" /\ runs = n)
         ~> (scheduler.state = "stopped" \/ (scheduler.state = "job" /\ runs = n + 1))

\* a run is under way after an earlier job ended with an error
C30_Witness ==
  /\ scheduler.failed
  /\ scheduler.state = "job"
  /\ runs = 2
  /\ pc = "transformed"

====
